---------------------------- MODULE Spec2Model ----------------------------
(***************************************************************************)
(* A model of pandas/core/dtypes/cast.py: dtype promotion (maybe_promote), *)
(* the n-ary join of dtypes (find_common_type), the casts of arrays        *)
(* (maybe_cast_to_integer_array, astype_nansafe), the downcasts            *)
(* (maybe_downcast_numeric, maybe_downcast_to_dtype), maybe_upcast_putmask,*)
(* the casts that call a collaborator (maybe_cast_to_extension_array,      *)
(* maybe_cast_to_datetime) and the scalar helpers (maybe_unbox_datetimelike,*)
(* validate_numeric_casting, coerce_indexer_dtype).                        *)
(*                                                                         *)
(* Dtypes are strings named as numpy / pandas print them.  Scalars are     *)
(* records [k, c, s, e, o, np]:                                            *)
(*   k   the kind of the scalar ("bool", "int", "float", "complex",        *)
(*       "None", "NA", "NaT", "dt64", "td64", "datetime", "Timedelta",     *)
(*       "str", "other", "list")                                           *)
(*   np  "py" for a Python object, else the numpy scalar type that boxes   *)
(*       it ("int16", "float32", ...)                                      *)
(*   int:     the value is s * (2^e + o), s in {1,-1}, o in {-1,0,1}       *)
(*   float:   c in {"nan","inf","fin"}; for a finite value e is the        *)
(*            narrowest float width whose range holds it and o the         *)
(*            narrowest float width that represents it exactly (o >= e)    *)
(*   complex: as float, with e, o in {32, 64} (the width of a component)   *)
(*   bool:    c in {"true","false"}                                        *)
(*   dt64 / td64: c in {"nat","val"}                                       *)
(*   datetime: c is the timezone ("naive", "UTC", "US/Eastern")            *)
(*   str:     c in {"parses","noparse"} (whether Timestamp accepts it)     *)
(***************************************************************************)
EXTENDS Integers, Sequences, FiniteSets, TLC

VARIABLES op, dtype, fill_value, res, again, types, common, asked, prev_common, rerun,
          arr, target, copy, out, length, mask, do_round, result, collaborator

vars ==
    <<op, dtype, fill_value, res, again, types, common, asked, prev_common, rerun,
      arr, target, copy, out, length, mask, do_round, result, collaborator>>

(* The largest exponent e of an integer fill value s * (2^e + o). *)
MaxExp == 64

(* The longest dtype list handed to find_common_type. *)
MaxTypes == 3

(* The longest array that is cast. *)
MaxArrayLen == 2

-----------------------------------------------------------------------------
(* The dtypes *)

SignedInts == {"int8", "int16", "int32", "int64"}

UnsignedInts == {"uint8", "uint16", "uint32", "uint64"}

Floats == {"float16", "float32", "float64"}

Complexes == {"complex64", "complex128"}

Datetime64s == {"datetime64[ns]", "datetime64[s]"}

Timedelta64s == {"timedelta64[ns]", "timedelta64[s]"}

FixedStrings == {"U", "S"}

SparseDtypes == {"Sparse[int64, 0]", "Sparse[int64, 1]"}

OpaqueExtensionDtypes == {"category", "period", "interval"}

ExtensionDtypes == OpaqueExtensionDtypes \cup {"boolean", "datetime64[ns, UTC]"} \cup SparseDtypes

NumpyDtypes ==
    {"bool", "object"} \cup SignedInts \cup UnsignedInts \cup Floats \cup Complexes
        \cup Datetime64s \cup Timedelta64s \cup FixedStrings

(* The dtypes maybe_promote is called with. *)
PromoteDtypes == NumpyDtypes \cup OpaqueExtensionDtypes \cup {"boolean", "datetime64[ns, UTC]"}

(* The dtypes find_common_type is called with. *)
JoinDtypes ==
    {"bool", "int8", "int64", "uint8", "uint64", "float16", "float64", "complex64",
     "complex128", "object", "datetime64[ns]", "datetime64[s]", "timedelta64[ns]", "U",
     "category", "period"} \cup SparseDtypes

(* np.float64, the scalar type itself (not np.dtype("float64")). *)
Float64Class == "<class 'numpy.float64'>"

Width(d) ==
    CASE d \in {"int8", "uint8"} -> 8
      [] d \in {"int16", "uint16", "float16"} -> 16
      [] d \in {"int32", "uint32", "float32"} -> 32
      [] d \in {"int64", "uint64", "float64", "complex64"} -> 64
      [] d = "complex128" -> 128
      [] OTHER -> 0

(* dtype.kind *)
Kind(d) ==
    CASE d \in {"bool", "boolean"} -> "b"
      [] d \in SignedInts \cup SparseDtypes -> "i"
      [] d \in UnsignedInts -> "u"
      [] d \in Floats -> "f"
      [] d \in Complexes -> "c"
      [] d \in Datetime64s \cup {"datetime64[ns, UTC]"} -> "M"
      [] d \in Timedelta64s -> "m"
      [] d = "U" -> "U"
      [] d = "S" -> "S"
      [] OTHER -> "O"

is_extension_array_dtype(d) == d \in ExtensionDtypes

(* issubclass(dtype.type, np.bool_) *)
TypeIsBool(d) == d \in {"bool", "boolean"}

(* issubclass(dtype.type, np.integer) *)
TypeIsInteger(d) == d \in SignedInts \cup UnsignedInts \cup SparseDtypes

(* issubclass(dtype.type, np.floating) *)
TypeIsFloating(d) == d \in Floats

is_integer_dtype(d) == d \in SignedInts \cup UnsignedInts

is_float_dtype(d) == d \in Floats

is_complex_dtype(d) == d \in Complexes

is_bool_dtype(d) == d \in {"bool", "boolean"}

is_datetime64_dtype(d) == d \in Datetime64s

is_timedelta64_dtype(d) == d \in Timedelta64s

-----------------------------------------------------------------------------
(* numpy's casting lattice *)

(* np.can_cast(from, to, "safe") between dtypes *)
NpCanCastSafe(from, to) ==
    \/ from = to
    \/ to = "object"
    \/ /\ from = "bool"
       /\ to \in SignedInts \cup UnsignedInts \cup Floats \cup Complexes
    \/ /\ from \in SignedInts
       /\ \/ to \in SignedInts /\ Width(from) <= Width(to)
          \/ to \in Floats /\ Width(to) >= 2 * Width(from)
          \/ to = "float64"
          \/ to = "complex64" /\ Width(from) <= 16
          \/ to = "complex128"
    \/ /\ from \in UnsignedInts
       /\ \/ to \in UnsignedInts /\ Width(from) <= Width(to)
          \/ to \in SignedInts /\ Width(from) < Width(to)
          \/ to \in Floats /\ Width(to) >= 2 * Width(from)
          \/ to = "float64"
          \/ to = "complex64" /\ Width(from) <= 16
          \/ to = "complex128"
    \/ /\ from \in Floats
       /\ \/ to \in Floats /\ Width(from) <= Width(to)
          \/ to = "complex64" /\ Width(from) <= 32
          \/ to = "complex128"
    \/ /\ from = "complex64"
       /\ to = "complex128"

(* numpy's __test_types, "?bBhHiIlLefdFDO", in its order *)
NpTestTypes ==
    <<"bool", "int8", "uint8", "int16", "uint16", "int32", "uint32", "int64", "uint64",
      "float16", "float32", "float64", "complex64", "complex128", "object">>

(* numpy's _can_coerce_all: the first test type every dtype of S casts to *)
NpCanCoerceAll(S) ==
    LET ok == {i \in 1..Len(NpTestTypes) : \A x \in S : NpCanCastSafe(x, NpTestTypes[i])}
        first == CHOOSE i \in ok : \A j \in ok : i <= j
    IN NpTestTypes[first]

(* np.promote_types(a, b): the smallest dtype both cast to safely *)
NpPromoteTypes(a, b) == NpCanCoerceAll({a, b})

(* mst > dtype for two np.dtype objects *)
NpDtypeGreater(a, b) == a /= b /\ NpCanCastSafe(b, a)

-----------------------------------------------------------------------------
(* The scalars *)

Scalar(k, c, s, e, o, np) == [k |-> k, c |-> c, s |-> s, e |-> e, o |-> o, np |-> np]

PyBool(b) == Scalar("bool", IF b THEN "true" ELSE "false", 0, 0, 0, "py")

PyInt(s, e, o) == Scalar("int", "", s, e, o, "py")

PyFloat(c, r, p) == Scalar("float", c, 0, r, p, "py")

PyComplex(r, p) == Scalar("complex", "fin", 0, r, p, "py")

NaN == PyFloat("nan", 16, 16)

None == Scalar("None", "", 0, 0, 0, "py")

NA == Scalar("NA", "", 0, 0, 0, "py")

NaT == Scalar("NaT", "", 0, 0, 0, "py")

(* np.datetime64("NaT", "ns") and np.timedelta64("NaT", "ns") *)
Datetime64NaT == Scalar("dt64", "nat", 0, 0, 0, "datetime64[ns]")

Timedelta64NaT == Scalar("td64", "nat", 0, 0, 0, "timedelta64[ns]")

Datetime64Value == Scalar("dt64", "val", 0, 0, 0, "datetime64[ns]")

Timedelta64Value == Scalar("td64", "val", 0, 0, 0, "timedelta64[ns]")

PyDatetime(tz) == Scalar("datetime", tz, 0, 0, 0, "py")

PyTimedelta == Scalar("Timedelta", "", 0, 0, 0, "py")

PyStr(c) == Scalar("str", c, 0, 0, 0, "py")

PyOther == Scalar("other", "", 0, 0, 0, "py")

PyList == Scalar("list", "", 0, 0, 0, "py")

IntValues ==
    {PyInt(s, e, o) : s \in {1, -1}, e \in 0..MaxExp, o \in {-1, 0, 1}}
        \ {PyInt(-1, 0, -1)}

FloatWidths == {16, 32, 64}

FloatValues ==
    UNION {{PyFloat("fin", r, p) : p \in {q \in FloatWidths : q >= r}} : r \in FloatWidths}
        \cup {NaN, PyFloat("inf", 16, 16)}

ComplexValues == {PyComplex(32, 32), PyComplex(32, 64), PyComplex(64, 64)}

NullMarkers == {NaN, None, NA, NaT, Datetime64NaT, Timedelta64NaT}

OtherValues ==
    {PyBool(TRUE), PyBool(FALSE), Datetime64Value, Timedelta64Value, PyTimedelta,
     PyDatetime("naive"), PyDatetime("UTC"), PyDatetime("US/Eastern"),
     PyStr("parses"), PyStr("noparse"), PyOther, PyList}

(* The fill values maybe_promote is called with. *)
FillValues == IntValues \cup FloatValues \cup ComplexValues \cup NullMarkers \cup OtherValues

(* lib.is_scalar *)
is_scalar(v) == v.k /= "list"

(* lib.is_bool, lib.is_integer, lib.is_float, lib.is_complex: Python and numpy scalars alike *)
is_bool(v) == v.k = "bool"

is_integer(v) == v.k = "int"

is_float(v) == v.k = "float"

is_complex(v) == v.k = "complex"

(* isna / np.isnan of a scalar *)
isna(v) ==
    \/ v.k \in {"None", "NA", "NaT"}
    \/ v.k \in {"float", "complex"} /\ v.c = "nan"
    \/ v.k \in {"dt64", "td64"} /\ v.c = "nat"

(* isinstance(fill_value, datetime): datetime, Timestamp and NaT *)
IsInstanceDatetime(v) == v.k \in {"datetime", "NaT"}

(* fill_value.tzinfo of a datetime instance *)
TzInfo(v) == IF v.k = "datetime" THEN v.c ELSE "naive"

(* pandas.core.dtypes.missing.is_valid_nat_for_dtype *)
is_valid_nat_for_dtype(v, d) ==
    /\ is_scalar(v)
    /\ isna(v)
    /\ CASE Kind(d) = "M" -> v.k /= "td64"
         [] Kind(d) = "m" -> v.k /= "dt64"
         [] Kind(d) \in {"i", "u", "f", "c"} -> v.k \notin {"NaT", "dt64", "td64"}
         [] OTHER -> v.k \notin {"dt64", "td64"}

(* The magnitude 2^e + o of an integer is at most 2^n - 1, resp. 2^n (n >= 2). *)
MagBelow(v, n) == v.e < n \/ (v.e = n /\ v.o = -1)

MagAtMost(v, n) == v.e < n \/ (v.e = n /\ v.o <= 0)

IsNegative(v) == v.s = -1

(* np.min_scalar_type of an integer: the narrowest unsigned type of a value >= 0, *)
(* the narrowest signed type of a negative one, object beyond 64 bits.           *)
NpMinScalarTypeInt(v) ==
    IF ~IsNegative(v)
    THEN CASE MagBelow(v, 8) -> "uint8"
           [] ~MagBelow(v, 8) /\ MagBelow(v, 16) -> "uint16"
           [] ~MagBelow(v, 16) /\ MagBelow(v, 32) -> "uint32"
           [] ~MagBelow(v, 32) /\ MagBelow(v, 64) -> "uint64"
           [] OTHER -> "object"
    ELSE CASE MagAtMost(v, 7) -> "int8"
           [] ~MagAtMost(v, 7) /\ MagAtMost(v, 15) -> "int16"
           [] ~MagAtMost(v, 15) /\ MagAtMost(v, 31) -> "int32"
           [] ~MagAtMost(v, 31) /\ MagAtMost(v, 63) -> "int64"
           [] OTHER -> "object"

(* np.min_scalar_type of a float or complex: by range alone; nan and inf are float16 *)
NpMinScalarTypeFloat(v) ==
    CASE v.c /= "fin" -> "float16"
      [] v.c = "fin" /\ v.e = 16 -> "float16"
      [] v.c = "fin" /\ v.e = 32 -> "float32"
      [] OTHER -> "float64"

NpMinScalarTypeComplex(v) == IF v.c = "fin" /\ v.e = 64 THEN "complex128" ELSE "complex64"

NpMinScalarType(v) ==
    CASE v.k = "int" -> NpMinScalarTypeInt(v)
      [] v.k = "float" -> NpMinScalarTypeFloat(v)
      [] v.k = "complex" -> NpMinScalarTypeComplex(v)
      [] v.k = "bool" -> "bool"
      [] OTHER -> "object"

(* numpy's is_small_unsigned: a value >= 0 that also fits the signed type of its width *)
NpIsSmallUnsigned(v) ==
    /\ ~IsNegative(v)
    /\ LET w == Width(NpMinScalarTypeInt(v)) IN w > 0 /\ MagBelow(v, w - 1)

SignedOfWidth(w) == CHOOSE d \in SignedInts : Width(d) = w

(* np.can_cast(fill_value, dtype) of an integer scalar: numpy casts by value *)
NpCanCastScalar(v, d) ==
    LET mst == NpMinScalarTypeInt(v)
        from == IF NpIsSmallUnsigned(v) /\ d \notin UnsignedInts
                THEN SignedOfWidth(Width(mst))
                ELSE mst
    IN mst /= "object" /\ NpCanCastSafe(from, d)

-----------------------------------------------------------------------------
(* dtype.type(value): boxing a scalar in the scalar type of a numpy dtype *)

(* The mantissa of a float of the given width, in bits. *)
Mantissa(w) == CASE w = 16 -> 11 [] w = 32 -> 24 [] OTHER -> 53

(* The narrowest float width whose range holds the integer 2^e + o. *)
IntRangeWidth(v) == IF v.e <= 15 THEN 16 ELSE 32

(* Whether a float of width w holds the integer s * (2^e + o) exactly. *)
IntExactInFloat(v, w) ==
    /\ IntRangeWidth(v) <= w
    /\ \/ v.o = 0
       \/ v.e = 0
       \/ v.o = -1 /\ v.e <= Mantissa(w)
       \/ v.o = 1 /\ v.e + 1 <= Mantissa(w)

(* np.floatW(int): exact, rounded to the nearest power of two, or inf *)
IntToFloat(v, w) ==
    CASE IntRangeWidth(v) > w -> Scalar("float", "inf", 0, 16, 16, "float")
      [] IntRangeWidth(v) <= w /\ IntExactInFloat(v, w) ->
            Scalar("float", "fin", 0, IntRangeWidth(v),
                   CHOOSE q \in FloatWidths :
                       /\ IntExactInFloat(v, q)
                       /\ \A q2 \in FloatWidths : IntExactInFloat(v, q2) => q <= q2,
                   "float")
      [] OTHER -> Scalar("float", "fin", 0, IntRangeWidth(v), IntRangeWidth(v), "float")

(* np.floatW(float): the same value when it is exact in W bits, else rounded or inf *)
FloatToFloat(v, w) ==
    CASE v.c /= "fin" -> v
      [] v.c = "fin" /\ v.o <= w -> v
      [] v.c = "fin" /\ v.o > w /\ v.e > w -> [v EXCEPT !.c = "inf", !.e = 16, !.o = 16]
      [] OTHER -> [v EXCEPT !.o = w]

Max(a, b) == IF a >= b THEN a ELSE b

(* np.complexN(value) of an integer, float or complex, N = 2 * w *)
ToComplex(v, w) ==
    LET f == IF v.k = "int" THEN IntToFloat(v, w) ELSE FloatToFloat(v, w)
    IN IF f.c = "fin"
       THEN Scalar("complex", "fin", 0, Max(f.e, 32), Max(f.o, 32), "complex")
       ELSE Scalar("complex", f.c, 0, 32, 32, "complex")

(* Whether the integer fits the integer dtype d. *)
IntFits(v, d) ==
    CASE d \in UnsignedInts -> ~IsNegative(v) /\ MagBelow(v, Width(d))
      [] d \in SignedInts /\ IsNegative(v) -> MagAtMost(v, Width(d) - 1)
      [] d \in SignedInts /\ ~IsNegative(v) -> MagBelow(v, Width(d) - 1)
      [] OTHER -> FALSE

(* dtype.type(value) for a numpy dtype that is not object *)
DtypeType(d, v) ==
    CASE d = "bool" /\ v.k = "bool" -> [v EXCEPT !.np = "bool"]
      [] d \in SignedInts \cup UnsignedInts /\ v.k = "int" ->
            IF IntFits(v, d) THEN [v EXCEPT !.np = d] ELSE [v EXCEPT !.c = "wrapped", !.np = d]
      [] d \in Floats /\ v.k = "int" -> [IntToFloat(v, Width(d)) EXCEPT !.np = d]
      [] d \in Floats /\ v.k = "float" -> [FloatToFloat(v, Width(d)) EXCEPT !.np = d]
      [] d \in Complexes /\ v.k \in {"int", "float", "complex"} ->
            [ToComplex(v, Width(d) \div 2) EXCEPT !.np = d]
      [] d \in Datetime64s /\ v.k = "dt64" -> v
      [] d \in Timedelta64s /\ v.k = "td64" -> v
      [] OTHER -> Scalar("invalid", "", 0, 0, 0, d)

(* _ensure_dtype_type *)
ensure_dtype_type(value, d) ==
    IF is_extension_array_dtype(d) THEN value
    ELSE IF d = "object" THEN value
    ELSE IF isna(value) THEN value
    ELSE DtypeType(d, value)

-----------------------------------------------------------------------------
(* maybe_promote *)

(* a result of maybe_promote; consulted lists the extension dtypes whose *)
(* _get_common_dtype the call asked: maybe_promote asks none            *)
Returns(d, v) == [dtype |-> d, fill_value |-> v, err |-> "", consulted |-> <<>>]

NoScalar == Scalar("", "", 0, 0, 0, "")

Raises(e) == [dtype |-> "", fill_value |-> NoScalar, err |-> e, consulted |-> <<>>]

(* Timestamp(fill_value) succeeds: a naive datetime, a datetime64 or a date string *)
TimestampAccepts(v) ==
    \/ v.k = "datetime"
    \/ v.k = "dt64" /\ v.c = "val"
    \/ v.k = "str" /\ v.c = "parses"

(* Timedelta(fill_value) succeeds: a Timedelta or a timedelta64 *)
TimedeltaAccepts(v) ==
    \/ v.k = "Timedelta"
    \/ v.k = "td64" /\ v.c = "val"

(* the datetime64 branch without its test for a tz-aware datetime: the variant *)
(* that C7 rules out                                                           *)
PromoteDatetime64NoTzTest(d, v) ==
    IF is_integer(v) \/ (is_float(v) /\ ~isna(v)) THEN Returns("object", v)
    ELSE IF is_valid_nat_for_dtype(v, d) THEN Returns(d, Datetime64NaT)
    ELSE IF TimestampAccepts(v) THEN Returns(d, Datetime64Value)
    ELSE Returns("object", v)

(* the datetime64 branch *)
PromoteDatetime64(d, v) ==
    IF IsInstanceDatetime(v) /\ TzInfo(v) /= "naive" THEN Returns("object", v)
    ELSE IF is_integer(v) \/ (is_float(v) /\ ~isna(v)) THEN Returns("object", v)
    ELSE IF is_valid_nat_for_dtype(v, d) THEN Returns(d, Datetime64NaT)
    ELSE IF TimestampAccepts(v) THEN Returns(d, Datetime64Value)
    ELSE Returns("object", v)

(* the timedelta64 branch with the NaT of the datetime64 branch: the variant *)
(* that C8 rules out                                                        *)
PromoteTimedelta64DatetimeNaT(d, v) ==
    IF is_integer(v) \/ (is_float(v) /\ ~isna(v)) \/ v.k = "str" THEN Returns("object", v)
    ELSE IF is_valid_nat_for_dtype(v, d) THEN Returns(d, Datetime64NaT)
    ELSE IF TimedeltaAccepts(v) THEN Returns(d, Timedelta64Value)
    ELSE Returns("object", v)

(* the timedelta64 branch *)
PromoteTimedelta64(d, v) ==
    IF is_integer(v) \/ (is_float(v) /\ ~isna(v)) \/ v.k = "str" THEN Returns("object", v)
    ELSE IF is_valid_nat_for_dtype(v, d) THEN Returns(d, Timedelta64NaT)
    ELSE IF TimedeltaAccepts(v) THEN Returns(d, Timedelta64Value)
    ELSE Returns("object", v)

(* the tz-aware datetime branch *)
PromoteDatetimeTZ(d, v) ==
    IF isna(v) THEN Returns(d, NaT)
    ELSE IF ~IsInstanceDatetime(v) THEN Returns("object", v)
    ELSE IF TzInfo(v) = "naive" THEN Returns("object", v)
    ELSE IF TzInfo(v) /= "UTC" THEN Returns("object", v)
    ELSE Returns(d, v)

(* dtype.na_value of an extension dtype *)
NaValue(d) ==
    CASE d \in {"category", "interval"} \cup SparseDtypes -> NaN
      [] d \in {"period", "datetime64[ns, UTC]"} -> NaT
      [] OTHER -> NA

(* a float fill value with the boolean dtype widened as an integer dtype is: *)
(* the variant that C1 rules out                                             *)
PromoteFloatBoolAsInteger(d, v) ==
    IF TypeIsBool(d) \/ TypeIsInteger(d) THEN Returns("float64", v)
    ELSE IF Kind(d) = "f"
    THEN LET mst == NpMinScalarType(v)
         IN IF NpDtypeGreater(mst, d) THEN Returns(mst, v) ELSE Returns(d, v)
    ELSE IF Kind(d) = "c" THEN Returns(NpPromoteTypes(d, NpMinScalarType(v)), v)
    ELSE Returns(d, v)

(* a float fill value *)
PromoteFloat(d, v) ==
    IF TypeIsBool(d) THEN Returns("object", v)
    ELSE IF TypeIsInteger(d) THEN Returns("float64", v)
    ELSE IF Kind(d) = "f"
    THEN LET mst == NpMinScalarType(v)
         IN IF NpDtypeGreater(mst, d) THEN Returns(mst, v) ELSE Returns(d, v)
    ELSE IF Kind(d) = "c" THEN Returns(NpPromoteTypes(d, NpMinScalarType(v)), v)
    ELSE Returns(d, v)

(* a boolean fill value kept by every dtype: the variant that C4 rules out *)
PromoteBoolKeepsDtype(d, v) == Returns(d, v)

(* a boolean fill value *)
PromoteBool(d, v) == IF ~TypeIsBool(d) THEN Returns("object", v) ELSE Returns(d, v)

(* numpy's join kept as it is, a float dtype too: the variant that C29 rules out *)
IntegerJoinAsNumpy(d, v) == NpPromoteTypes(d, NpMinScalarType(v))

(* the dtype an integer dtype is widened to for an integer that does not fit *)
IntegerJoin(d, v) ==
    LET joined == NpPromoteTypes(d, NpMinScalarType(v))
    IN IF Kind(joined) = "f" THEN "object" ELSE joined

(* an integer fill value *)
PromoteInteger(d, v) ==
    IF TypeIsBool(d) THEN Returns("object", v)
    ELSE IF TypeIsInteger(d)
    THEN IF ~NpCanCastScalar(v, d) THEN Returns(IntegerJoin(d, v), v) ELSE Returns(d, v)
    ELSE Returns(d, v)

(* a complex fill value *)
PromoteComplex(d, v) ==
    IF TypeIsBool(d) THEN Returns("object", v)
    ELSE IF TypeIsInteger(d) \/ TypeIsFloating(d)
    THEN Returns(NpPromoteTypes(d, NpMinScalarType(v)), v)
    ELSE IF Kind(d) = "c"
    THEN LET mst == NpMinScalarType(v)
         IN IF NpDtypeGreater(mst, d) THEN Returns(mst, v) ELSE Returns(d, v)
    ELSE Returns(d, v)

(* None or NA with the marker returned as passed: the variant that C3 rules out *)
PromoteNoneKeepsMarker(d, v) ==
    IF is_float_dtype(d) \/ is_complex_dtype(d) THEN Returns(d, NaN)
    ELSE IF is_integer_dtype(d) THEN Returns(Float64Class, NaN)
    ELSE Returns("object", v)

(* None or NA as fill value *)
PromoteNone(d, v) ==
    IF is_float_dtype(d) \/ is_complex_dtype(d) THEN Returns(d, NaN)
    ELSE IF is_integer_dtype(d) THEN Returns(Float64Class, NaN)
    ELSE Returns("object", IF v /= NA THEN NaN ELSE v)

(* the if / elif chain of maybe_promote that picks the dtype and the fill value *)
PromoteChain(d, v) ==
    IF d \in Datetime64s THEN PromoteDatetime64(d, v)
    ELSE IF d \in Timedelta64s THEN PromoteTimedelta64(d, v)
    ELSE IF d = "datetime64[ns, UTC]" THEN PromoteDatetimeTZ(d, v)
    ELSE IF is_extension_array_dtype(d) /\ isna(v) THEN Returns(d, NaValue(d))
    ELSE IF is_float(v) THEN PromoteFloat(d, v)
    ELSE IF is_bool(v) THEN PromoteBool(d, v)
    ELSE IF is_integer(v) THEN PromoteInteger(d, v)
    ELSE IF is_complex(v) THEN PromoteComplex(d, v)
    ELSE IF v = None \/ v = NA THEN PromoteNone(d, v)
    ELSE Returns("object", v)

(* a string dtype left as it is: the variant that C9 rules out *)
KeepStringDtype(d) == d

(* "in case we have a string that looked like a number" *)
StringToObject(d) ==
    IF is_extension_array_dtype(d) THEN d
    ELSE IF d \in FixedStrings THEN "object"
    ELSE d

maybe_promote(d, v) ==
    IF ~is_scalar(v) /\ d /= "object" THEN Raises("ValueError")
    ELSE IF d = Float64Class THEN Raises("AttributeError")
    ELSE LET chain == PromoteChain(d, v)
             d2 == StringToObject(chain.dtype)
         IN Returns(d2, ensure_dtype_type(chain.fill_value, d2))

-----------------------------------------------------------------------------
(* find_common_type *)

(* SparseDtype(subtype, fill_value) *)
SparseDtype(subtype, fill) ==
    CASE subtype = "int64" /\ fill = 0 -> "Sparse[int64, 0]"
      [] subtype = "int64" /\ fill = 1 -> "Sparse[int64, 1]"
      [] subtype = "float64" /\ fill = 0 -> "Sparse[float64, 0]"
      [] subtype = "float64" /\ fill = 1 -> "Sparse[float64, 1]"
      [] subtype = "complex128" /\ fill = 0 -> "Sparse[complex128, 0]"
      [] subtype = "complex128" /\ fill = 1 -> "Sparse[complex128, 1]"
      [] fill = 0 -> "Sparse[object, 0]"
      [] OTHER -> "Sparse[object, 1]"

SparseFill(d) == IF d = "Sparse[int64, 0]" THEN 0 ELSE 1

SparseSubtype(d) == IF d \in SparseDtypes THEN "int64" ELSE d

Range(seq) == {seq[i] : i \in 1..Len(seq)}

(* the answer None of an extension dtype that knows no common dtype *)
NoAnswer == "None"

(* t._get_common_dtype(types) of the extension dtypes:                        *)
(*   a categorical with object categories joins its categories' dtype with    *)
(*     the rest, which is object;                                              *)
(*   a period dtype answers only a list of itself;                             *)
(*   a sparse dtype answers a list of sparse and numpy dtypes with the join    *)
(*     of the subtypes and the fill value of the first sparse dtype listed.    *)
GetCommonDtype(t, ts) ==
    CASE t = "category" -> "object"
      [] t \in SparseDtypes ->
            IF \E x \in Range(ts) : is_extension_array_dtype(x) /\ x \notin SparseDtypes
            THEN NoAnswer
            ELSE LET firstSparse == CHOOSE i \in 1..Len(ts) :
                         /\ ts[i] \in SparseDtypes
                         /\ \A j \in 1..Len(ts) : ts[j] \in SparseDtypes => i <= j
                 IN SparseDtype(NpCanCoerceAll({SparseSubtype(x) : x \in Range(ts)}),
                                SparseFill(ts[firstSparse]))
      [] OTHER -> NoAnswer

(* list(dict.fromkeys(types).keys()): the first occurrence of each dtype, in order *)
Unique(ts) ==
    LET keep == {i \in 1..Len(ts) : \A j \in 1..(i - 1) : ts[j] /= ts[i]}
        F[i \in 0..Len(ts)] ==
            IF i = 0 THEN <<>>
            ELSE IF i \in keep THEN Append(F[i - 1], ts[i]) ELSE F[i - 1]
    IN F[Len(ts)]

(* every extension dtype asked, the loop not stopping at the first answer: the *)
(* variant that C12 rules out                                                 *)
AskedAll(ts) ==
    LET F[i \in 0..Len(ts)] ==
            IF i = 0 THEN <<>>
            ELSE IF is_extension_array_dtype(ts[i]) THEN Append(F[i - 1], ts[i]) ELSE F[i - 1]
    IN F[Len(ts)]

(* the extension dtypes asked, in list order, up to the first that answers *)
AskedOf(ts) ==
    LET ext == {i \in 1..Len(ts) : is_extension_array_dtype(ts[i])}
        answers == {i \in ext : GetCommonDtype(ts[i], ts) /= NoAnswer}
        last == IF answers = {} THEN Len(ts)
                ELSE CHOOSE i \in answers : \A j \in answers : i <= j
        F[i \in 0..Len(ts)] ==
            IF i = 0 THEN <<>>
            ELSE IF i \in ext /\ i <= last THEN Append(F[i - 1], ts[i]) ELSE F[i - 1]
    IN F[Len(ts)]

(* the loop over the extension dtypes: the first answer that is not None, else object *)
ExtensionCommon(ts) ==
    LET answers == {i \in 1..Len(ts) :
                        /\ is_extension_array_dtype(ts[i])
                        /\ GetCommonDtype(ts[i], ts) /= NoAnswer}
    IN IF answers = {} THEN "object"
       ELSE GetCommonDtype(ts[CHOOSE i \in answers : \A j \in answers : i <= j], ts)

(* np.find_common_type(types, []) *)
NpFindCommonType(ts) == IF Len(ts) = 1 THEN ts[1] ELSE NpCanCoerceAll(Range(ts))

(* has_bools looking at the first dtype only: the variant that C10 rules out *)
HasBoolsFirst(u) == is_bool_dtype(u[1])

(* has_bools = any(is_bool_dtype(t) for t in types) *)
HasBools(u) == \E t \in Range(u) : is_bool_dtype(t)

Found(d, a) == [dtype |-> d, asked |-> a, err |-> ""]

find_common_type(ts) ==
    IF Len(ts) = 0 THEN [dtype |-> "", asked |-> <<>>, err |-> "ValueError"]
    ELSE IF \A i \in 2..Len(ts) : ts[1] = ts[i] THEN Found(ts[1], <<>>)
    ELSE LET u == Unique(ts)
         IN IF \E t \in Range(u) : is_extension_array_dtype(t)
            THEN Found(ExtensionCommon(u), AskedOf(u))
            ELSE IF \A t \in Range(u) : is_datetime64_dtype(t) THEN Found("datetime64[ns]", <<>>)
            ELSE IF \A t \in Range(u) : is_timedelta64_dtype(t) THEN Found("timedelta64[ns]", <<>>)
            ELSE IF /\ HasBools(u)
                    /\ \E t \in Range(u) :
                          is_integer_dtype(t) \/ is_float_dtype(t) \/ is_complex_dtype(t)
            THEN Found("object", <<>>)
            ELSE Found(NpFindCommonType(u), <<>>)

-----------------------------------------------------------------------------
(* Arrays *)

(* An array is a record [dtype, elems]; dtype "list" is a Python list.  An     *)
(* element is a record [k, v, hi]:                                             *)
(*   k = "int":   the integer v + hi * 2^64 (hi = -1, v = 0 stands for the     *)
(*                least int64, hi = 2 for a Python int beyond 64 bits)         *)
(*   k = "float": the finite float v / 2 (v = 3 is 1.5)                        *)
(*   k = "nan", "inf", "ninf": the non-finite floats                           *)
(*   k = "bool":  v in {0, 1}                                                  *)
(*   k = "nat":   NaT;  k = "time": the instant or duration of count v         *)
(*   k = "none":  None;  k = "str": a string                                   *)
(*   k = "OverflowError", "ValueError", "TypeError": the conversion of the     *)
(*                element raised                                               *)
Elem(k, v, hi) == [k |-> k, v |-> v, hi |-> hi]

IntElem(v) == Elem("int", v, 0)

FloatElem(halves) == Elem("float", halves, 0)

IntMin64 == Elem("int", 0, -1)

HugeInt == Elem("int", 0, 2)

ElemNaN == Elem("nan", 0, 0)

ElemNaT == Elem("nat", 0, 0)

ElemNone == Elem("none", 0, 0)

ElemRaised(e) == Elem(e, 0, 0)

Array(d, es) == [dtype |-> d, elems |-> es]

(* The builds of numpy differ in two ways: a Python int that does not fit the  *)
(* target wraps around or raises OverflowError, and a C cast of a float that   *)
(* the integer type cannot hold is undefined: ub is the integer it yields.     *)
Builds == [strict : BOOLEAN, ub : {IntMin64, IntElem(0)}]

IntegerTargets == {"int8", "uint8", "int64", "uint64"}

is_unsigned_integer_dtype(t) == t \in {"uint8", "uint64"}

(* whether the integer v (hi = 0) is a value of the integer dtype t *)
InIntRange(v, t) ==
    CASE t = "int8" -> v >= -128 /\ v <= 127
      [] t = "uint8" -> v >= 0 /\ v <= 255
      [] t = "uint64" -> v >= 0
      [] OTHER -> TRUE

(* the C conversion of the integer v to the integer dtype t: modulo 2^width *)
Wrap(v, t) ==
    CASE t = "int8" -> IntElem(((v + 128) % 256) - 128)
      [] t = "uint8" -> IntElem(v % 256)
      [] t = "uint64" -> IF v >= 0 THEN IntElem(v) ELSE Elem("int", v, 1)
      [] OTHER -> IntElem(v)

(* the integer part of the float of the given halves, towards zero *)
Trunc(halves) == IF halves >= 0 THEN halves \div 2 ELSE -((-halves) \div 2)

(* the C cast of a float element to the integer dtype t *)
FloatToInt(e, t, build) ==
    IF e.k = "float" /\ InIntRange(Trunc(e.v), t) THEN IntElem(Trunc(e.v)) ELSE build.ub

(* int(x) stored into the integer dtype t, for an element of a list or of an   *)
(* object array                                                                *)
PyToInt(e, t, build) ==
    CASE e.k = "int" /\ e.hi /= 0 -> ElemRaised("OverflowError")
      [] e.k = "int" /\ e.hi = 0 ->
            IF InIntRange(e.v, t) THEN e
            ELSE IF build.strict THEN ElemRaised("OverflowError")
            ELSE Wrap(e.v, t)
      [] e.k = "bool" -> IntElem(e.v)
      [] e.k = "float" -> FloatToInt(e, t, build)
      [] e.k = "nan" -> ElemRaised("ValueError")
      [] e.k \in {"inf", "ninf"} -> ElemRaised("OverflowError")
      [] OTHER -> ElemRaised("TypeError")

(* arr.astype(t) of one element of an int64 or float64 array *)
CToInt(e, t, build) ==
    IF e.k = "int" THEN Wrap(e.v, t) ELSE FloatToInt(e, t, build)

Raised(es) == {i \in 1..Len(es) : es[i].k \in {"OverflowError", "ValueError", "TypeError"}}

FirstRaised(es) == es[CHOOSE i \in Raised(es) : \A j \in Raised(es) : i <= j].k

(* twice the numeric value of an integer (hi = 0) or finite float element *)
Twice(e) == IF e.k = "int" THEN 2 * e.v ELSE e.v

(* a == b of two numeric elements *)
ElemEqual(a, b) ==
    /\ a.k \in {"int", "float"}
    /\ b.k \in {"int", "float"}
    /\ a.hi = b.hi
    /\ Twice(a) = Twice(b)

(* np.array_equal(arr, casted) *)
NpArrayEqual(es, cs) ==
    Len(es) = Len(cs) /\ \A i \in 1..Len(es) : ElemEqual(es[i], cs[i])

(* x < 0 *)
ElemNegative(e) ==
    \/ e.k \in {"int", "float"} /\ e.hi = 0 /\ e.v < 0
    \/ e.k = "ninf"

(* the dtype of np.asarray(arr) *)
NpAsarrayDtype(a) ==
    IF a.dtype /= "list" THEN a.dtype
    ELSE IF \E i \in 1..Len(a.elems) : a.elems[i].k = "int" /\ a.elems[i].hi /= 0 THEN "object"
    ELSE IF \E i \in 1..Len(a.elems) : a.elems[i].k \notin {"int", "bool"} THEN "float64"
    ELSE "int64"

-----------------------------------------------------------------------------
(* maybe_cast_to_integer_array *)

(* what a call on an array gives: an array, an exception, or None *)
Gives(d, es, shares, warned) ==
    [kind |-> "array", dtype |-> d, elems |-> es, err |-> "", msg |-> "",
     shares |-> shares, warned |-> warned, casted |-> <<>>]

ArrayRaises(e, m, warned) ==
    [kind |-> "raise", dtype |-> "", elems |-> <<>>, err |-> e, msg |-> m,
     shares |-> FALSE, warned |-> warned, casted |-> <<>>]

GivesNone ==
    [kind |-> "None", dtype |-> "", elems |-> <<>>, err |-> "", msg |-> "",
     shares |-> FALSE, warned |-> FALSE, casted |-> <<>>]

(* np.array(arr, dtype=dtype, copy=copy) of a list, arr.astype(dtype, copy=copy) *)
(* of an array: the elements, some of them raised                                *)
CastElems(a, t, build) ==
    IF a.dtype \in {"list", "object"}
    THEN [i \in 1..Len(a.elems) |-> PyToInt(a.elems[i], t, build)]
    ELSE [i \in 1..Len(a.elems) |-> CToInt(a.elems[i], t, build)]

(* the checks after the conversion, the precision check before the sign check: *)
(* the variant that C13 rules out                                              *)
AfterCastPrecisionFirst(a, t, cs, shares) ==
    IF NpArrayEqual(a.elems, cs) THEN [Gives(t, cs, shares, FALSE) EXCEPT !.casted = cs]
    ELSE IF is_float_dtype(NpAsarrayDtype(a)) \/ NpAsarrayDtype(a) = "object"
    THEN [ArrayRaises("ValueError", "Trying to coerce float values to integers", FALSE)
              EXCEPT !.casted = cs]
    ELSE IF is_unsigned_integer_dtype(t) /\ \E i \in 1..Len(a.elems) : ElemNegative(a.elems[i])
    THEN [ArrayRaises("OverflowError",
                      "Trying to coerce negative values to unsigned integers", FALSE)
              EXCEPT !.casted = cs]
    ELSE [GivesNone EXCEPT !.casted = cs]

(* the checks after the conversion: equal, negative into unsigned, float or    *)
(* object; a call that passes them all falls off the end of the function       *)
AfterCast(a, t, cs, shares) ==
    IF NpArrayEqual(a.elems, cs) THEN [Gives(t, cs, shares, FALSE) EXCEPT !.casted = cs]
    ELSE IF is_unsigned_integer_dtype(t) /\ \E i \in 1..Len(a.elems) : ElemNegative(a.elems[i])
    THEN [ArrayRaises("OverflowError",
                      "Trying to coerce negative values to unsigned integers", FALSE)
              EXCEPT !.casted = cs]
    ELSE IF is_float_dtype(NpAsarrayDtype(a)) \/ NpAsarrayDtype(a) = "object"
    THEN [ArrayRaises("ValueError", "Trying to coerce float values to integers", FALSE)
              EXCEPT !.casted = cs]
    ELSE [GivesNone EXCEPT !.casted = cs]

maybe_cast_to_integer_array(a, t, cp, build) ==
    LET cs == CastElems(a, t, build)
    IN IF Raised(cs) /= {}
       THEN IF FirstRaised(cs) = "OverflowError"
            THEN ArrayRaises("OverflowError",
                             "The elements provided in the data cannot all be casted", FALSE)
            ELSE ArrayRaises(FirstRaised(cs), "", FALSE)
       ELSE AfterCast(a, t, cs, ~cp /\ a.dtype = t)

-----------------------------------------------------------------------------
(* astype_nansafe *)

(* np.dtype("datetime64") and np.dtype("timedelta64"): the dtypes without a unit *)
BareTemporal == {"datetime64", "timedelta64"}

ArrayDatetime64s == Datetime64s \cup {"datetime64"}

ArrayTimedelta64s == Timedelta64s \cup {"timedelta64"}

(* dtype.kind, of the dtypes without a unit too *)
ArrayKind(d) ==
    IF d \in ArrayDatetime64s THEN "M"
    ELSE IF d \in ArrayTimedelta64s THEN "m"
    ELSE Kind(d)

NsPerSecond == 1000000000

(* the nanoseconds of one unit of the dtype; a dtype without a unit takes the *)
(* unit of the array that is cast to it                                       *)
UnitNs(d, from) ==
    CASE d \in {"datetime64[s]", "timedelta64[s]"} -> NsPerSecond
      [] d \in BareTemporal -> from
      [] OTHER -> 1

(* the count v of units of fromNs nanoseconds, in units of toNs nanoseconds: *)
(* numpy divides towards minus infinity                                      *)
ConvertCount(v, fromNs, toNs) ==
    IF toNs >= fromNs THEN v \div (toNs \div fromNs) ELSE v * (fromNs \div toNs)

(* arr.astype(dtype) of one element of a datetime64 or timedelta64 array to a *)
(* dtype of the same kind: NaT stays NaT                                      *)
ResampleElem(e, from, to) ==
    IF e.k = "nat" THEN e
    ELSE Elem("time", ConvertCount(e.v, UnitNs(from, 1), UnitNs(to, UnitNs(from, 1))), 0)

ElemIsNull(e) == e.k \in {"nan", "nat", "none"}

(* isna(arr).any() *)
AnyNull(es) == \E i \in 1..Len(es) : ElemIsNull(es[i])

(* a test for NaN only, infinities passing: the variant that C20 rules out *)
NoNaN(es) == \A i \in 1..Len(es) : es[i].k /= "nan"

(* np.isfinite(arr).all() *)
AllFinite(es) == \A i \in 1..Len(es) : es[i].k \notin {"nan", "inf", "ninf"}

(* ensure_wrapped_if_datetimelike(arr).astype(dtype, copy=copy) for str and *)
(* object: the elements boxed, or formatted ("NaT" for NaT)                 *)
DatetimelikeAstype(a, t) ==
    IF t = "object" THEN Gives("object", a.elems, FALSE, FALSE)
    ELSE Gives(t, [i \in 1..Len(a.elems) |-> Elem("str", 0, 0)], FALSE, FALSE)

(* lib.ensure_string_array(arr, skipna=skipna, convert_na_value=False): every *)
(* element formatted, a null one kept as it is when skipna                    *)
EnsureStringArray(a, skipna) ==
    Gives("object",
          [i \in 1..Len(a.elems) |->
              IF skipna /\ ElemIsNull(a.elems[i]) THEN a.elems[i] ELSE Elem("str", 0, 0)],
          FALSE, FALSE)

(* the cast to int64 without the test for NaT: the variant that C17 rules out *)
TemporalToInt64NoNullTest(a) ==
    Gives("int64",
          [i \in 1..Len(a.elems) |->
              IF a.elems[i].k = "nat" THEN IntMin64 ELSE IntElem(a.elems[i].v)],
          TRUE, TRUE)

(* the part the datetime64 and the timedelta64 branch share: the cast to int64 *)
TemporalToInt64(a) ==
    IF AnyNull(a.elems)
    THEN ArrayRaises("ValueError", "Cannot convert NaT values to integer", TRUE)
    ELSE Gives("int64", [i \in 1..Len(a.elems) |-> IntElem(a.elems[i].v)], TRUE, TRUE)

(* the datetime64 branch refusing NaT for every target: the variant that C19 *)
(* rules out                                                                 *)
AstypeDatetime64NullTest(a, t) ==
    IF AnyNull(a.elems)
    THEN ArrayRaises("ValueError", "Cannot convert NaT values to integer", t = "int64")
    ELSE IF t = "int64" THEN TemporalToInt64(a)
    ELSE IF ArrayKind(t) = "M"
    THEN Gives(IF t \in BareTemporal THEN a.dtype ELSE t,
               [i \in 1..Len(a.elems) |-> ResampleElem(a.elems[i], a.dtype, t)],
               FALSE, FALSE)
    ELSE ArrayRaises("TypeError", "cannot astype a datetimelike", FALSE)

(* the datetime64 branch *)
AstypeDatetime64(a, t) ==
    IF t = "int64" THEN TemporalToInt64(a)
    ELSE IF ArrayKind(t) = "M"
    THEN Gives(IF t \in BareTemporal THEN a.dtype ELSE t,
               [i \in 1..Len(a.elems) |-> ResampleElem(a.elems[i], a.dtype, t)],
               FALSE, FALSE)
    ELSE ArrayRaises("TypeError", "cannot astype a datetimelike", FALSE)

(* the float a timedelta64 element is cast to by astype(np.float64) and the *)
(* putmask that follows                                                     *)
CountToFloat(e) == IF e.k = "nat" THEN ElemNaN ELSE FloatElem(2 * e.v)

(* astype_td64_unit_conversion with the NaT counts left in the quotient: the *)
(* variant that C18 rules out                                                *)
astype_td64_unit_conversion_no_mask(a, t, cp, own) ==
    IF a.dtype = t THEN Gives(t, a.elems, own /\ ~cp, FALSE)
    ELSE Gives("float64",
               [i \in 1..Len(a.elems) |->
                   IF a.elems[i].k = "nat" THEN Elem("float", 0, -1)
                   ELSE CountToFloat(ResampleElem(a.elems[i], a.dtype, t))],
               FALSE, FALSE)

(* astype_td64_unit_conversion(values, dtype, copy); own says that values is *)
(* the array the caller passed in                                            *)
astype_td64_unit_conversion(a, t, cp, own) ==
    IF a.dtype = t THEN Gives(t, a.elems, own /\ ~cp, FALSE)
    ELSE Gives("float64",
               [i \in 1..Len(a.elems) |-> CountToFloat(ResampleElem(a.elems[i], a.dtype, t))],
               FALSE, FALSE)

(* the timedelta64 branch casting to every other dtype as numpy would: the *)
(* variant that C21 rules out                                              *)
AstypeTimedelta64AnyTarget(a, t, cp, own) ==
    IF t = "int64" THEN TemporalToInt64(a)
    ELSE IF ArrayKind(t) = "m" THEN astype_td64_unit_conversion(a, t, cp, own)
    ELSE Gives(t, a.elems, FALSE, FALSE)

(* the timedelta64 branch *)
AstypeTimedelta64(a, t, cp, own) ==
    IF t = "int64" THEN TemporalToInt64(a)
    ELSE IF ArrayKind(t) = "m" THEN astype_td64_unit_conversion(a, t, cp, own)
    ELSE ArrayRaises("TypeError", "cannot astype a timedelta", FALSE)

(* to_datetime(arr).values and to_timedelta(arr)._values of an object array: *)
(* nanosecond counts, NaT for the null elements                              *)
ToTemporalElem(e) ==
    CASE ElemIsNull(e) -> ElemNaT
      [] e.k = "float" -> Elem("time", Trunc(e.v), 0)
      [] OTHER -> Elem("time", e.v, 0)

ToTemporal(a, d) == Array(d, [i \in 1..Len(a.elems) |-> ToTemporalElem(a.elems[i])])

(* arr.astype(dtype) of one element of an int64, float64 or object array *)
NpAstypeElem(e, t, build) ==
    CASE t = "bool" ->
            IF e.k \in {"int", "float", "bool"} THEN Elem("bool", IF e.v = 0 THEN 0 ELSE 1, 0)
            ELSE IF e.k = "none" THEN Elem("bool", 0, 0)
            ELSE Elem("bool", 1, 0)
      [] is_integer_dtype(t) -> IF e.k = "int" THEN Wrap(e.v, t) ELSE FloatToInt(e, t, build)
      [] t = "float64" ->
            IF e.k = "int" THEN FloatElem(2 * e.v)
            ELSE IF e.k = "none" THEN ElemNaN
            ELSE IF e.k = "time" THEN ElemRaised("TypeError")
            ELSE e
      [] ArrayKind(t) \in {"M", "m"} ->
            IF e.k = "int" THEN Elem("time", e.v, 0)
            ELSE IF e.k = "float" THEN Elem("time", Trunc(e.v), 0)
            ELSE IF e.k = "nan" THEN ElemNaT
            ELSE IF build.ub = IntMin64 THEN ElemNaT ELSE Elem("time", 0, 0)
      [] OTHER -> e

(* arr.astype(dtype, copy=copy) at the end of astype_nansafe *)
NpAstype(a, t, cp, build) ==
    LET es == [i \in 1..Len(a.elems) |-> NpAstypeElem(a.elems[i], t, build)]
    IN IF Raised(es) /= {} THEN ArrayRaises(FirstRaised(es), "", FALSE)
       ELSE Gives(t, es, ~cp /\ a.dtype = t, FALSE)

(* lib.astype_intsafe(arr, dtype) *)
AstypeIntsafe(a, t, build) ==
    LET es == [i \in 1..Len(a.elems) |-> PyToInt(a.elems[i], t, build)]
    IN IF Raised(es) /= {} THEN ArrayRaises(FirstRaised(es), "", FALSE)
       ELSE Gives(t, es, FALSE, FALSE)

MissingUnit == ArrayRaises("ValueError", "dtype has no unit", FALSE)

(* the end of astype_nansafe: the test for a missing unit, then the cast *)
AstypeTail(a, t, cp, build) ==
    IF t \in BareTemporal THEN MissingUnit
    ELSE IF cp \/ a.dtype = "object" \/ t = "object" THEN NpAstype(a, t, TRUE, build)
    ELSE NpAstype(a, t, cp, build)

astype_nansafe(a, t, cp, skipna, build) ==
    IF ArrayKind(a.dtype) \in {"m", "M"} /\ t \in {"U", "object"} THEN DatetimelikeAstype(a, t)
    ELSE IF t = "U" THEN EnsureStringArray(a, skipna)
    ELSE IF is_datetime64_dtype(a.dtype) THEN AstypeDatetime64(a, t)
    ELSE IF is_timedelta64_dtype(a.dtype) THEN AstypeTimedelta64(a, t, cp, TRUE)
    ELSE IF TypeIsFloating(a.dtype) /\ is_integer_dtype(t)
    THEN IF ~AllFinite(a.elems)
         THEN ArrayRaises("ValueError",
                          "Cannot convert non-finite values (NA or inf) to integer", FALSE)
         ELSE AstypeTail(a, t, cp, build)
    ELSE IF a.dtype = "object"
    THEN IF is_integer_dtype(t) THEN AstypeIntsafe(a, t, build)
         ELSE IF ArrayKind(t) = "M" THEN AstypeDatetime64(ToTemporal(a, "datetime64[ns]"), t)
         ELSE IF ArrayKind(t) = "m"
         THEN AstypeTimedelta64(ToTemporal(a, "timedelta64[ns]"), t, cp, FALSE)
         ELSE AstypeTail(a, t, cp, build)
    ELSE AstypeTail(a, t, cp, build)

-----------------------------------------------------------------------------
(* maybe_downcast_numeric *)

(* dtype.itemsize *)
ItemSize(d) ==
    CASE d = "bool" -> 1
      [] d = "object" \/ ArrayKind(d) \in {"M", "m"} -> 8
      [] OTHER -> Width(d) \div 8

(* np.round of the float of the given halves: to the nearest integer, a tie *)
(* to the even one                                                          *)
RoundHalves(h) == IF h % 2 = 0 THEN h ELSE IF (h + 1) % 4 = 0 THEN h + 1 ELSE h - 1

(* trans(x): x.round() if do_round *)
trans(es, rnd) ==
    [i \in 1..Len(es) |->
        IF rnd /\ es[i].k = "float" THEN FloatElem(RoundHalves(es[i].v)) ELSE es[i]]

(* the nearest multiple of q, a tie to the even multiple *)
RoundTo(h, q) ==
    LET r == h % q
        lo == h - r
    IN IF 2 * r < q THEN lo
       ELSE IF 2 * r > q THEN lo + q
       ELSE IF (lo \div q) % 2 = 0 THEN lo ELSE lo + q

(* the float32 nearest to the float of the given halves (below 2^25): 24 bits *)
(* of mantissa                                                               *)
Float32Round(h) ==
    LET abs == IF h < 0 THEN -h ELSE h
    IN IF abs < 2^24 THEN h ELSE IF abs < 2^25 THEN RoundTo(h, 2) ELSE RoundTo(h, 4)

(* x.astype(t) of one element, for a bool, integer or floating t *)
DowncastElem(e, d, t, build) ==
    CASE t = "bool" ->
            IF e.k \in {"int", "float", "bool"} THEN Elem("bool", IF e.v = 0 THEN 0 ELSE 1, 0)
            ELSE IF e.k = "none" THEN Elem("bool", 0, 0)
            ELSE Elem("bool", 1, 0)
      [] is_integer_dtype(t) ->
            IF d = "object" THEN PyToInt(e, t, build) ELSE CToInt(e, t, build)
      [] OTHER ->
            IF e.k = "int" THEN FloatElem(2 * e.v)
            ELSE IF e.k = "float"
            THEN FloatElem(IF t = "float32" THEN Float32Round(e.v) ELSE e.v)
            ELSE e

(* twice the value of a boolean, integer or finite float element *)
NumTwice(e) == IF e.k = "float" THEN e.v ELSE 2 * e.v

(* new == old of two elements, and np.isclose(new, old, rtol=0): the floats  *)
(* of the model are halves apart, the absolute tolerance is 1e-8             *)
CloseElem(new, old) ==
    /\ new.k \in {"int", "float", "bool"}
    /\ old.k \in {"int", "float", "bool"}
    /\ new.hi = old.hi
    /\ NumTwice(new) = NumTwice(old)

(* (new_result == result).all() and np.allclose(new_result, result, rtol=0) *)
AllClose(ns, es) == \A i \in 1..Len(es) : CloseElem(ns[i], es[i])

(* return result: the input array itself *)
Unchanged(a) == Gives(a.dtype, a.elems, TRUE, FALSE)

(* a new array, which shares nothing with the input *)
Converted(t, es) ==
    IF Raised(es) /= {} THEN ArrayRaises(FirstRaised(es), "", FALSE)
    ELSE Gives(t, es, FALSE, FALSE)

(* the round trip test left out: the variant that C22 rules out *)
DowncastToIntegerUntested(a, t, rnd, build) ==
    Converted(t, [i \in 1..Len(a.elems) |-> DowncastElem(trans(a.elems, rnd)[i], a.dtype, t, build)])

(* the branch of the bool and integer targets *)
DowncastToInteger(a, t, rnd, build) ==
    LET new_result ==
            [i \in 1..Len(a.elems) |-> DowncastElem(trans(a.elems, rnd)[i], a.dtype, t, build)]
    IN IF a.elems = <<>> THEN Converted(t, new_result)
       ELSE IF ElemIsNull(a.elems[1]) THEN Unchanged(a)
       ELSE IF a.elems[1].k \notin {"int", "float", "inf", "ninf"} THEN Unchanged(a)
       ELSE IF (a.dtype = "object" \/ Kind(a.dtype) \in {"i", "u", "f", "c"}) /\ ~AnyNull(a.elems)
       THEN IF Raised(new_result) /= {} THEN Converted(t, new_result)
            ELSE IF AllClose(new_result, a.elems) THEN Converted(t, new_result)
            ELSE Unchanged(a)
       ELSE Unchanged(a)

(* no guard against upcasts: the variant that C23 rules out *)
NoUpcastGuard(a, t) == FALSE

(* "don't allow upcasts here (except if empty)" *)
IsUpcast(a, t) ==
    Kind(t) = Kind(a.dtype) /\ ItemSize(a.dtype) <= ItemSize(t) /\ a.elems /= <<>>

maybe_downcast_numeric(a, t, rnd, build) ==
    IF is_extension_array_dtype(t) THEN Unchanged(a)
    ELSE IF IsUpcast(a, t) THEN Unchanged(a)
    ELSE IF is_bool_dtype(t) \/ is_integer_dtype(t) THEN DowncastToInteger(a, t, rnd, build)
    ELSE IF TypeIsFloating(t) /\ ~is_bool_dtype(a.dtype) /\ a.dtype /= "object"
    THEN Converted(t, [i \in 1..Len(a.elems) |-> DowncastElem(a.elems[i], a.dtype, t, build)])
    ELSE Unchanged(a)

-----------------------------------------------------------------------------
(* maybe_upcast_putmask *)

(* np.float64 == np.dtype("float64"): numpy compares a scalar type as its dtype *)
DtypeEq(a, b) ==
    (IF a = Float64Class THEN "float64" ELSE a) = (IF b = Float64Class THEN "float64" ELSE b)

(* mask.any() *)
MaskAny(m) == \E i \in 1..Len(m) : m[i]

(* np.place(result, mask, np.nan) *)
NpPlace(es, m) == [i \in 1..Len(es) |-> IF m[i] THEN ElemNaN ELSE es[i]]

(* result.astype(new_dtype, copy=True), new_dtype being float64 or object *)
UpcastElems(es, d) ==
    [i \in 1..Len(es) |->
        IF d = "float64" /\ es[i].k = "int" THEN FloatElem(2 * es[i].v) ELSE es[i]]

(* what the call gives and the destination array after it *)
Putmask(given, destination) == [out |-> given, result |-> destination]

(* NaN placed into the destination with no promotion: the variant that C24 *)
(* rules out                                                               *)
maybe_upcast_putmask_in_place(a, m) ==
    IF a.dtype = "list"
    THEN Putmask(ArrayRaises("ValueError", "The result input must be a ndarray.", FALSE), a)
    ELSE Putmask(Gives(a.dtype, NpPlace(a.elems, m), TRUE, FALSE),
                 Array(a.dtype, NpPlace(a.elems, m)))

maybe_upcast_putmask(a, m) ==
    IF a.dtype = "list"
    THEN Putmask(ArrayRaises("ValueError", "The result input must be a ndarray.", FALSE), a)
    ELSE IF MaskAny(m)
    THEN LET new_dtype == maybe_promote(a.dtype, NaN).dtype
         IN IF ~DtypeEq(new_dtype, a.dtype)
            THEN Putmask(Gives(new_dtype, NpPlace(UpcastElems(a.elems, new_dtype), m),
                               FALSE, FALSE), a)
            ELSE Putmask(Gives(a.dtype, NpPlace(a.elems, m), TRUE, FALSE),
                         Array(a.dtype, NpPlace(a.elems, m)))
    ELSE Putmask(Unchanged(a), a)

-----------------------------------------------------------------------------
(* The operations that call a collaborator which may fail: the outcome of the *)
(* collaborator ("ok" or the exception it raises) is an input of the call.    *)

(* lib.infer_dtype(obj) == "string" *)
InferredString(es) == es /= <<>> /\ \A i \in 1..Len(es) : es[i].k = "str"

(* cls._from_sequence is reached: a StringArray is built from strings only *)
FromSequenceCalled(cls, obj) == cls /= "string" \/ InferredString(obj.elems)

(* an exception of cls._from_sequence raised to the caller: the variant that *)
(* C25 rules out                                                             *)
maybe_cast_to_extension_array_raising(cls, obj, outcome) ==
    IF ~FromSequenceCalled(cls, obj) THEN Unchanged(obj)
    ELSE IF outcome = "ok" THEN Gives(cls, obj.elems, FALSE, FALSE)
    ELSE ArrayRaises(outcome, "", FALSE)

maybe_cast_to_extension_array(cls, obj, outcome) ==
    IF ~FromSequenceCalled(cls, obj) THEN Unchanged(obj)
    ELSE IF outcome = "ok" THEN Gives(cls, obj.elems, FALSE, FALSE)
    ELSE Unchanged(obj)

IsTemporalTarget(t) == ArrayKind(t) \in {"M", "m"} \/ t = "datetime64[ns, UTC]"

(* the dtype forced to nanoseconds *)
ForcedDtype(t) ==
    CASE t = "datetime64[ns, UTC]" -> t
      [] ArrayKind(t) = "M" -> "datetime64[ns]"
      [] OTHER -> "timedelta64[ns]"

(* to_datetime / to_timedelta is reached *)
ToDatetimeCalled(a, t) ==
    /\ IsTemporalTarget(t)
    /\ t \notin BareTemporal
    /\ a.elems /= <<>> \/ a.dtype /= ForcedDtype(t)

(* to_datetime(value)._values, to_timedelta(value)._values *)
ParsedElems(a) ==
    [i \in 1..Len(a.elems) |->
        IF ArrayKind(a.dtype) \in {"M", "m"}
        THEN ResampleElem(a.elems[i], a.dtype, "datetime64[ns]")
        ELSE ToTemporalElem(a.elems[i])]

maybe_cast_to_datetime(a, t, outcome) ==
    IF IsTemporalTarget(t)
    THEN IF t \in BareTemporal THEN MissingUnit
         ELSE IF ~ToDatetimeCalled(a, t) THEN Unchanged(a)
         ELSE IF outcome = "ok" THEN Gives(ForcedDtype(t), ParsedElems(a), FALSE, FALSE)
         ELSE IF outcome = "OutOfBoundsDatetime" THEN ArrayRaises(outcome, "", FALSE)
         ELSE Unchanged(a)
    ELSE IF ArrayKind(a.dtype) = "M"
    THEN IF t = "object" THEN Gives("object", ParsedElems(a), FALSE, FALSE)
         ELSE ArrayRaises("TypeError", "Cannot cast datetime64 to", FALSE)
    ELSE Unchanged(a)

(* PeriodArray(result, freq=dtype.freq) is reached *)
PeriodArrayCalled(t) == t = "period"

maybe_downcast_to_dtype(a, t, outcome, build) ==
    IF PeriodArrayCalled(t) /\ outcome = "ok" THEN Gives(t, a.elems, FALSE, FALSE)
    ELSE IF PeriodArrayCalled(t) /\ outcome /= "TypeError" THEN ArrayRaises(outcome, "", FALSE)
    ELSE LET converted == maybe_downcast_numeric(a, t, FALSE, build)
         IN IF converted /= Unchanged(a) THEN converted
            ELSE IF Kind(t) \in {"M", "m"} /\ Kind(a.dtype) \in {"i", "f"}
            THEN Gives(t, [i \in 1..Len(a.elems) |->
                              NpAstypeElem(a.elems[i], "datetime64[ns]", build)], FALSE, FALSE)
            ELSE Unchanged(a)

-----------------------------------------------------------------------------
(* maybe_unbox_datetimelike *)

(* pd.Timestamp, pd.Timedelta and datetime.timedelta values; PyDatetime is a *)
(* plain datetime.datetime here                                              *)
PdTimestamp(tz) == Scalar("Timestamp", tz, 0, 0, 0, "py")

PdTimedelta == Scalar("pd.Timedelta", "", 0, 0, 0, "py")

PlainTimedelta == Scalar("timedelta", "", 0, 0, 0, "py")

(* getattr(value, "dtype", None).kind: numpy scalars alone carry a dtype *)
VdtypeKind(v) ==
    CASE v.k = "dt64" -> "M"
      [] v.k = "td64" -> "m"
      [] v.np /= "py" -> Kind(v.np)
      [] OTHER -> "None"

(* _disallow_mismatched_datetimelike raises *)
disallow_mismatched_datetimelike(v, d) ==
    \/ VdtypeKind(v) = "m" /\ Kind(d) = "M"
    \/ VdtypeKind(v) = "M" /\ Kind(d) = "m"

(* dtype.type("NaT", "ns") *)
DtypeNaT(d) == IF Kind(d) = "M" THEN Datetime64NaT ELSE Timedelta64NaT

(* the value after the unboxing branches *)
Unboxed(value, d) ==
    IF is_valid_nat_for_dtype(value, d) THEN DtypeNaT(d)
    ELSE IF value.k = "Timestamp"
    THEN IF value.c = "naive" THEN Datetime64Value ELSE value
    ELSE IF value.k = "pd.Timedelta" THEN Timedelta64Value
    ELSE value

maybe_unbox_datetimelike(value, d) ==
    IF disallow_mismatched_datetimelike(Unboxed(value, d), d) THEN Raises("TypeError")
    ELSE Returns(d, Unboxed(value, d))

-----------------------------------------------------------------------------
(* validate_numeric_casting *)

(* the function returns None *)
Completes == [dtype |-> "", fill_value |-> NoScalar, err |-> "", consulted |-> <<>>]

(* issubclass(dtype.type, complex): np.complex128 alone derives from Python's complex *)
TypeIsPyComplex(d) == d = "complex128"

validate_numeric_casting(d, value) ==
    IF (TypeIsInteger(d) \/ TypeIsBool(d)) /\ is_float(value) /\ isna(value)
    THEN Raises("ValueError")
    ELSE IF /\ TypeIsInteger(d) \/ TypeIsFloating(d) \/ TypeIsPyComplex(d)
            /\ ~TypeIsBool(d)
            /\ is_bool(value)
    THEN Raises("ValueError")
    ELSE Completes

-----------------------------------------------------------------------------
(* coerce_indexer_dtype *)

int8_max == 127

int16_max == 32767

int32_max == 2147483647

(* ensure_int8 ... ensure_int64 of the indexer *)
EnsureInt(a, t) ==
    Gives(t, [i \in 1..Len(a.elems) |-> Wrap(a.elems[i].v, t)], a.dtype = t, FALSE)

coerce_indexer_dtype(indexer, n) ==
    IF n < int8_max THEN EnsureInt(indexer, "int8")
    ELSE IF n < int16_max THEN EnsureInt(indexer, "int16")
    ELSE IF n < int32_max THEN EnsureInt(indexer, "int32")
    ELSE EnsureInt(indexer, "int64")

-----------------------------------------------------------------------------
(* The calls *)

DtypeLists == UNION {[1..n -> JoinDtypes] : n \in 0..MaxTypes}

Init ==
    /\ op = "init"
    /\ dtype = "object"
    /\ fill_value = NaN
    /\ res = Returns("object", NaN)
    /\ again = FALSE
    /\ types = <<>>
    /\ common = Found("object", <<>>)
    /\ asked = <<>>
    /\ prev_common = Found("object", <<>>)
    /\ rerun = "no"
    /\ arr = Array("object", <<>>)
    /\ target = "object"
    /\ copy = FALSE
    /\ out = GivesNone
    /\ length = 0
    /\ mask = <<>>
    /\ do_round = FALSE
    /\ result = Array("object", <<>>)
    /\ collaborator = "ok"

(* No state is kept between calls: a call starts from a clean record. *)
JoinCleared ==
    /\ types' = <<>>
    /\ common' = Found("object", <<>>)
    /\ asked' = <<>>
    /\ prev_common' = Found("object", <<>>)
    /\ rerun' = "no"

PromoteCleared ==
    /\ dtype' = "object"
    /\ fill_value' = NaN
    /\ res' = Returns("object", NaN)
    /\ again' = FALSE

ArrayCleared ==
    /\ arr' = Array("object", <<>>)
    /\ target' = "object"
    /\ copy' = FALSE
    /\ out' = GivesNone
    /\ length' = 0
    /\ mask' = <<>>
    /\ do_round' = FALSE
    /\ result' = Array("object", <<>>)
    /\ collaborator' = "ok"

(* maybe_promote(d, v) *)
CallMaybePromote ==
    /\ op = "init"
    /\ \E d \in PromoteDtypes, v \in FillValues :
        /\ op' = "maybe_promote"
        /\ dtype' = d
        /\ fill_value' = v
        /\ res' = maybe_promote(d, v)
        /\ again' = FALSE
        /\ JoinCleared
        /\ ArrayCleared

(* maybe_promote applied to the pair the last call returned *)
CallMaybePromoteAgain ==
    /\ op = "maybe_promote"
    /\ res.err = ""
    /\ op' = op
    /\ dtype' = res.dtype
    /\ fill_value' = res.fill_value
    /\ res' = maybe_promote(res.dtype, res.fill_value)
    /\ again' = TRUE
    /\ JoinCleared
    /\ ArrayCleared

JoinCall(ts, how) ==
    /\ op' = "find_common_type"
    /\ types' = ts
    /\ common' = find_common_type(ts)
    /\ asked' = common'.asked
    /\ prev_common' = common
    /\ rerun' = how
    /\ PromoteCleared
    /\ ArrayCleared

(* find_common_type(ts) *)
CallFindCommonType == op = "init" /\ \E ts \in DtypeLists : JoinCall(ts, "no")

Swap(ts, i, j) == [ts EXCEPT ![i] = ts[j], ![j] = ts[i]]

(* find_common_type of the last list with two of its elements exchanged *)
CallFindCommonTypeReordered ==
    /\ op = "find_common_type"
    /\ \E i, j \in 1..Len(types) : i < j /\ JoinCall(Swap(types, i, j), "reordered")

(* find_common_type of the last list with one of its dtypes listed once more *)
CallFindCommonTypeDuplicated ==
    /\ op = "find_common_type"
    /\ Len(types) < MaxTypes
    /\ \E i \in 1..Len(types) : JoinCall(Append(types, types[i]), "duplicated")

RemoveAt(ts, i) == [k \in 1..(Len(ts) - 1) |-> IF k < i THEN ts[k] ELSE ts[k + 1]]

(* find_common_type of the last list without one occurrence of a repeated dtype *)
CallFindCommonTypeDeduplicated ==
    /\ op = "find_common_type"
    /\ \E i \in 1..Len(types) :
          /\ \E j \in 1..Len(types) : j /= i /\ types[j] = types[i]
          /\ JoinCall(RemoveAt(types, i), "deduplicated")

(* the call has returned to its caller, which may call again *)
Return ==
    /\ op /= "init"
    /\ op' = "init"
    /\ PromoteCleared
    /\ JoinCleared
    /\ ArrayCleared

(* The elements of the arrays that are cast, by dtype. *)
ElemsOf(d) ==
    CASE d = "int64" -> {IntElem(-1), IntElem(0), IntElem(1), IntElem(300)}
      [] d = "float64" ->
            {FloatElem(2), FloatElem(3), FloatElem(-2), FloatElem(600),
             ElemNaN, Elem("inf", 0, 0), Elem("ninf", 0, 0)}
      [] d = "object" ->
            {IntElem(1), IntElem(-1), FloatElem(3), ElemNone, ElemNaN, HugeInt,
             Elem("time", 1, 0)}
      [] d = "list" ->
            {IntElem(1), IntElem(-1), IntElem(300), FloatElem(3), FloatElem(4), ElemNaN, HugeInt}
      [] d \in {"datetime64[ns]", "timedelta64[ns]"} ->
            {ElemNaT, Elem("time", 0, 0), Elem("time", 500000000, 0),
             Elem("time", NsPerSecond, 0), Elem("time", -1, 0)}
      [] OTHER -> {ElemNaT, Elem("time", 0, 0), Elem("time", 1, 0), Elem("time", -1, 0)}

ArraysOf(d) == {Array(d, es) : es \in UNION {[1..n -> ElemsOf(d)] : n \in 0..MaxArrayLen}}

ArrayCall(name, a, t, cp, given) ==
    /\ op' = name
    /\ arr' = a
    /\ target' = t
    /\ copy' = cp
    /\ out' = given
    /\ length' = 0
    /\ mask' = <<>>
    /\ do_round' = FALSE
    /\ result' = Array("object", <<>>)
    /\ collaborator' = "ok"
    /\ PromoteCleared
    /\ JoinCleared

CastSources == {"list", "int64", "float64", "object"}

(* maybe_cast_to_integer_array(arr, dtype, copy) *)
CallMaybeCastToIntegerArray ==
    /\ op = "init"
    /\ \E d \in CastSources, t \in IntegerTargets, cp \in BOOLEAN, build \in Builds :
          \E a \in ArraysOf(d) :
             ArrayCall("maybe_cast_to_integer_array", a, t, cp,
                       maybe_cast_to_integer_array(a, t, cp, build))

AstypeSources ==
    {"int64", "float64", "object", "datetime64[ns]", "datetime64[s]", "timedelta64[ns]"}

AstypeTargets ==
    {"bool", "int32", "int64", "uint64", "float64", "U", "object", "datetime64[ns]",
     "datetime64[s]", "datetime64", "timedelta64[ns]", "timedelta64[s]", "timedelta64"}

(* skipna is read for a string target only *)
SkipnaFor(t) == IF t = "U" THEN BOOLEAN ELSE {FALSE}

(* the build decides the cast of a float array to a temporal dtype and that of *)
(* an object array to an integer dtype only                                    *)
BuildsFor(d, t) ==
    IF d = "float64" /\ ArrayKind(t) \in {"M", "m"} THEN {b \in Builds : ~b.strict}
    ELSE IF d = "object" /\ is_integer_dtype(t) THEN {b \in Builds : b.ub = IntMin64}
    ELSE {[strict |-> FALSE, ub |-> IntMin64]}

(* astype_nansafe(arr, dtype, copy, skipna) *)
CallAstypeNansafe ==
    /\ op = "init"
    /\ \E d \in AstypeSources, t \in AstypeTargets, cp \in BOOLEAN :
          \E a \in ArraysOf(d), skipna \in SkipnaFor(t), build \in BuildsFor(d, t) :
             ArrayCall("astype_nansafe", a, t, cp, astype_nansafe(a, t, cp, skipna, build))

(* a call of an operation on a dtype and a scalar *)
ScalarCall(name, d, v, given) ==
    /\ op' = name
    /\ dtype' = d
    /\ fill_value' = v
    /\ res' = given
    /\ again' = FALSE
    /\ JoinCleared
    /\ ArrayCleared

UnboxValues ==
    NullMarkers \cup
        {PdTimestamp("naive"), PdTimestamp("UTC"), PdTimedelta, PlainTimedelta,
         PyDatetime("naive"), Datetime64Value, Timedelta64Value, PyInt(1, 0, 0)}

(* maybe_unbox_datetimelike(value, dtype) *)
CallMaybeUnboxDatetimelike ==
    /\ op = "init"
    /\ \E d \in Datetime64s \cup Timedelta64s, v \in UnboxValues :
          ScalarCall("maybe_unbox_datetimelike", d, v, maybe_unbox_datetimelike(v, d))

ValidateValues == FloatValues \cup NullMarkers \cup OtherValues \cup {PyInt(1, 0, 0)}

(* validate_numeric_casting(dtype, value) *)
CallValidateNumericCasting ==
    /\ op = "init"
    /\ \E d \in NumpyDtypes, v \in ValidateValues :
          ScalarCall("validate_numeric_casting", d, v, validate_numeric_casting(d, v))

(* len(categories) *)
CategoryCounts ==
    {0, 1, 2, int8_max - 1, int8_max, int8_max + 1, int16_max - 1, int16_max,
     int16_max + 1, int32_max - 1, int32_max}

(* coerce_indexer_dtype(indexer, categories): the indexer holds valid codes *)
CallCoerceIndexerDtype ==
    /\ op = "init"
    /\ \E n \in CategoryCounts, d \in {"int8", "int64"} :
          \E a \in {b \in ArraysOf("int64") : \A i \in 1..Len(b.elems) : b.elems[i].v < n} :
             /\ op' = "coerce_indexer_dtype"
             /\ arr' = Array(d, a.elems)
             /\ target' = "object"
             /\ copy' = FALSE
             /\ out' = coerce_indexer_dtype(Array(d, a.elems), n)
             /\ length' = n
             /\ mask' = <<>>
    /\ do_round' = FALSE
    /\ result' = Array("object", <<>>)
    /\ collaborator' = "ok"
             /\ PromoteCleared
             /\ JoinCleared

DowncastSources == {"bool", "int64", "float32", "float64", "object"}

DowncastTargets ==
    {"bool", "int8", "int64", "float32", "float64", "object", "datetime64[ns]", "category"}

(* The elements of the arrays that are downcast, by dtype: 33554434 halves is *)
(* 2^24 + 1, which no float32 equals.                                        *)
DowncastElemsOf(d) ==
    CASE d = "bool" -> {Elem("bool", 0, 0), Elem("bool", 1, 0)}
      [] d = "int64" -> {IntElem(1), IntElem(300)}
      [] d = "float32" -> {FloatElem(2), ElemNaN}
      [] d = "float64" ->
            {FloatElem(2), FloatElem(3), FloatElem(33554434), ElemNaN, Elem("inf", 0, 0)}
      [] OTHER -> {IntElem(1), FloatElem(3), ElemNone, HugeInt, Elem("time", 1, 0)}

DowncastArraysOf(d) ==
    {Array(d, es) : es \in UNION {[1..n -> DowncastElemsOf(d)] : n \in 0..MaxArrayLen}}

(* maybe_downcast_numeric(result, dtype, do_round): rounding is asked for *)
(* numeric results only                                                   *)
CallMaybeDowncastNumeric ==
    /\ op = "init"
    /\ \E d \in DowncastSources, t \in DowncastTargets :
          \E a \in DowncastArraysOf(d), rnd \in IF d \in {"float32", "float64"} THEN BOOLEAN ELSE {FALSE},
             build \in {b \in Builds : ~b.strict} :
             /\ op' = "maybe_downcast_numeric"
             /\ arr' = a
             /\ target' = t
             /\ copy' = FALSE
             /\ out' = maybe_downcast_numeric(a, t, rnd, build)
             /\ length' = 0
             /\ mask' = <<>>
             /\ do_round' = rnd
    /\ result' = Array("object", <<>>)
    /\ collaborator' = "ok"
             /\ PromoteCleared
             /\ JoinCleared

PutmaskSources == {"list", "bool", "int64", "float64", "object"}

(* maybe_upcast_putmask(result, mask): the mask has the shape of the destination *)
CallMaybeUpcastPutmask ==
    /\ op = "init"
    /\ \E d \in PutmaskSources :
          \E a \in DowncastArraysOf(d) :
             \E m \in [1..Len(a.elems) -> BOOLEAN] :
                /\ op' = "maybe_upcast_putmask"
                /\ arr' = a
                /\ target' = "object"
                /\ copy' = FALSE
                /\ out' = maybe_upcast_putmask(a, m).out
                /\ length' = 0
                /\ mask' = m
                /\ do_round' = FALSE
                /\ result' = maybe_upcast_putmask(a, m).result
                /\ collaborator' = "ok"
                /\ PromoteCleared
                /\ JoinCleared

(* a call of an operation with a collaborator of the given outcome *)
CollaboratorCall(name, a, t, outcome, given) ==
    /\ op' = name
    /\ arr' = a
    /\ target' = t
    /\ copy' = FALSE
    /\ out' = given
    /\ length' = 0
    /\ mask' = <<>>
    /\ do_round' = FALSE
    /\ result' = Array("object", <<>>)
    /\ collaborator' = outcome
    /\ PromoteCleared
    /\ JoinCleared

ObjectArrays ==
    {Array("object", es) :
        es \in UNION {[1..n -> {IntElem(1), Elem("str", 1, 0), ElemNone}] : n \in 0..MaxArrayLen}}

(* maybe_cast_to_extension_array(cls, obj): cls is named by its dtype *)
CallMaybeCastToExtensionArray ==
    /\ op = "init"
    /\ \E cls \in {"string", "Int64", "period"},
          outcome \in {"ok", "TypeError", "ValueError", "Exception"} :
          \E obj \in ObjectArrays :
             CollaboratorCall("maybe_cast_to_extension_array", obj, cls, outcome,
                              maybe_cast_to_extension_array(cls, obj, outcome))

DatetimeCastTargets ==
    {"datetime64[ns]", "datetime64[s]", "datetime64", "timedelta64[ns]", "timedelta64",
     "datetime64[ns, UTC]", "object", "int64"}

(* maybe_cast_to_datetime(value, dtype), dtype given *)
CallMaybeCastToDatetime ==
    /\ op = "init"
    /\ \E t \in DatetimeCastTargets,
          outcome \in {"ok", "TypeError", "ValueError", "OutOfBoundsDatetime"} :
          \E a \in ObjectArrays \cup ArraysOf("datetime64[s]") \cup DowncastArraysOf("int64") :
             CollaboratorCall("maybe_cast_to_datetime", a, t, outcome,
                              maybe_cast_to_datetime(a, t, outcome))

(* maybe_downcast_to_dtype(result, dtype), dtype a dtype object *)
CallMaybeDowncastToDtype ==
    /\ op = "init"
    /\ \E d \in {"int64", "float64", "object"},
          t \in {"period", "int64", "float32", "datetime64[ns]", "datetime64[ns, UTC]"},
          outcome \in {"ok", "TypeError", "ValueError"} :
          \E a \in DowncastArraysOf(d), build \in {b \in Builds : ~b.strict} :
             CollaboratorCall("maybe_downcast_to_dtype", a, t, outcome,
                              maybe_downcast_to_dtype(a, t, outcome, build))

Next ==
    \/ Return
    \/ CallMaybeCastToExtensionArray
    \/ CallMaybeCastToDatetime
    \/ CallMaybeDowncastToDtype
    \/ CallMaybeUpcastPutmask
    \/ CallMaybeDowncastNumeric
    \/ CallMaybeUnboxDatetimelike
    \/ CallValidateNumericCasting
    \/ CallCoerceIndexerDtype
    \/ CallMaybePromote
    \/ CallMaybePromoteAgain
    \/ CallFindCommonType
    \/ CallFindCommonTypeReordered
    \/ CallFindCommonTypeDuplicated
    \/ CallFindCommonTypeDeduplicated
    \/ CallMaybeCastToIntegerArray
    \/ CallAstypeNansafe

Spec == Init /\ [][Next]_vars

-----------------------------------------------------------------------------
(* The claims about maybe_promote *)

Promoted == op = "maybe_promote"

NumericDtypes == SignedInts \cup UnsignedInts \cup Floats \cup Complexes

(* C1: maybe_promote returns (object, fill value unchanged) whenever one side is *)
(* boolean and the other non-boolean numeric: a boolean fill value against an    *)
(* integer, float or complex dtype, or an integer, float (NaN too) or complex    *)
(* fill value against the boolean dtype.                                         *)
C1_BoolNumericGivesObject ==
    (/\ Promoted
     /\ \/ is_bool(fill_value) /\ dtype \in NumericDtypes
        \/ fill_value.k \in {"int", "float", "complex"} /\ dtype = "bool")
        => res = Returns("object", fill_value)

C1_Witness ==
    /\ Promoted
    /\ dtype = "bool"
    /\ fill_value = NaN
    /\ res = Returns("object", NaN)

(* Whether every value of the integer dtype d is a value of the integer dtype t. *)
IntDtypeCovers(t, d) ==
    \/ t \in SignedInts /\ d \in SignedInts /\ Width(d) <= Width(t)
    \/ t \in UnsignedInts /\ d \in UnsignedInts /\ Width(d) <= Width(t)
    \/ t \in SignedInts /\ d \in UnsignedInts /\ Width(d) < Width(t)

(* The integer dtypes that hold every value of d and the integer v. *)
IntCandidates(d, v) ==
    {t \in SignedInts \cup UnsignedInts : IntDtypeCovers(t, d) /\ IntFits(v, t)}

SameInteger(a, b) ==
    a.k = "int" /\ b.k = "int" /\ a.c = b.c /\ a.s = b.s /\ a.e = b.e /\ a.o = b.o

(* C2 as claimed: an integer dtype is kept for an integer fill value that fits; *)
(* for one that does not fit the result is the narrowest integer dtype holding  *)
(* the dtype and the value whenever there is one (int32 with 2^40 gives int64), *)
(* with a fill value numerically equal to the one passed.                       *)
C2_NarrowestIntegerDtype ==
    (/\ Promoted
     /\ dtype \in SignedInts \cup UnsignedInts
     /\ is_integer(fill_value))
        => IF IntFits(fill_value, dtype)
           THEN res.dtype = dtype /\ SameInteger(res.fill_value, fill_value)
           ELSE IntCandidates(dtype, fill_value) /= {}
                    => /\ res.dtype \in IntCandidates(dtype, fill_value)
                       /\ \A t \in IntCandidates(dtype, fill_value) :
                              Width(res.dtype) <= Width(t)
                       /\ SameInteger(res.fill_value, fill_value)

PlainDtypes == {"bool", "object"} \cup NumericDtypes \cup FixedStrings

(* C3 as claimed: None or NA into a dtype that is neither temporal nor extension *)
(* gives (dtype, NaN) for float and complex, (float64, NaN) for integer, and for *)
(* every other dtype object with the very marker passed in.                      *)
C3_MarkerPreserved ==
    (/\ Promoted
     /\ fill_value \in {None, NA}
     /\ dtype \in PlainDtypes)
        => /\ res.err = ""
           /\ CASE dtype \in Floats \cup Complexes ->
                       res.dtype = dtype /\ res.fill_value = NaN
                [] dtype \in SignedInts \cup UnsignedInts ->
                       DtypeEq(res.dtype, "float64") /\ res.fill_value = NaN
                [] OTHER -> res.dtype = "object" /\ res.fill_value = fill_value

(* C3 amended: as claimed, but for the other dtypes only NA is returned as passed: *)
(* None is replaced by NaN.                                                        *)
C3_NoneBecomesNaN ==
    (/\ Promoted
     /\ fill_value \in {None, NA}
     /\ dtype \in PlainDtypes)
        => /\ res.err = ""
           /\ CASE dtype \in Floats \cup Complexes ->
                       res.dtype = dtype /\ res.fill_value = NaN
                [] dtype \in SignedInts \cup UnsignedInts ->
                       DtypeEq(res.dtype, "float64") /\ res.fill_value = NaN
                [] OTHER ->
                       /\ res.dtype = "object"
                       /\ res.fill_value = IF fill_value = NA THEN NA ELSE NaN

C3_Witness ==
    /\ Promoted
    /\ dtype = "bool"
    /\ fill_value = None
    /\ res = Returns("object", NaN)

PromoteExtensionDtypes == PromoteDtypes \cap ExtensionDtypes

Representable(v, d) ==
    \/ d = "object"
    \/ d = "bool" /\ v.k = "bool"
    \/ d \in SignedInts \cup UnsignedInts /\ v.k = "int" /\ IntFits(v, d)
    \/ d \in Floats /\ v.k = "float" /\ (v.c = "fin" => v.e <= Width(d))
    \/ d \in Complexes /\ v.k = "complex" /\ (v.c = "fin" => 2 * v.e <= Width(d))

(* C5 as claimed: maybe_promote is idempotent: promoting the pair a call returned *)
(* returns the same dtype, and a fill value already representable in the dtype    *)
(* leaves the dtype as it is.                                                     *)
C5_Idempotent ==
    /\ (Promoted /\ again) => res.err = "" /\ DtypeEq(res.dtype, dtype)
    /\ (Promoted /\ ~again /\ is_scalar(fill_value) /\ Representable(fill_value, dtype))
           => res.err = "" /\ res.dtype = dtype

(* Whether every value of dtype d is a value of dtype t, exactly. *)
HoldsAll(t, d) ==
    \/ t = "object"
    \/ DtypeEq(t, d)
    \/ IntDtypeCovers(t, d)
    \/ d = "bool" /\ t \in NumericDtypes
    \/ /\ d \in SignedInts \cup UnsignedInts
       /\ \/ DtypeEq(t, "float64") /\ Width(d) <= 32
          \/ t = "float32" /\ Width(d) <= 16
          \/ t = "float16" /\ Width(d) <= 8
          \/ t = "complex128" /\ Width(d) <= 32
          \/ t = "complex64" /\ Width(d) <= 16
    \/ d \in Floats /\ t \in Floats /\ Width(d) <= Width(t)
    \/ d \in Floats /\ t \in Complexes /\ 2 * Width(d) <= Width(t)
    \/ d \in Complexes /\ t \in Complexes /\ Width(d) <= Width(t)

(* Whether dtype t holds the scalar v exactly. *)
HoldsValue(t, v) ==
    \/ t = "object"
    \/ isna(v)
    \/ t = "bool" /\ v.k = "bool"
    \/ t \in SignedInts \cup UnsignedInts /\ v.k = "int" /\ IntFits(v, t)
    \/ t \in Floats /\ v.k = "int" /\ IntExactInFloat(v, Width(t))
    \/ t \in Complexes /\ v.k = "int" /\ IntExactInFloat(v, Width(t) \div 2)
    \/ (t \in Floats \/ t = Float64Class) /\ v.k = "float" /\ (v.c = "fin" => v.o <= Width(t))
    \/ t \in Complexes /\ v.k \in {"float", "complex"} /\ (v.c = "fin" => 2 * v.o <= Width(t))
    \/ t \in Datetime64s /\ v.k \in {"dt64", "datetime", "str"}
    \/ t \in Timedelta64s /\ v.k \in {"td64", "Timedelta"}
    \/ t \in ExtensionDtypes

(* C6 as claimed: the dtype maybe_promote returns represents without loss every *)
(* value of the dtype passed in and the fill value.                             *)
C6_ResultHoldsBoth ==
    (Promoted /\ ~again /\ res.err = "")
        => HoldsAll(res.dtype, dtype) /\ HoldsValue(res.dtype, fill_value)

(* C7: a tz-aware datetime into a datetime64 dtype, and a non-null integer or *)
(* float into a datetime64 or timedelta64 dtype, give object with the fill    *)
(* value unchanged.                                                           *)
C7_TemporalToObject ==
    (/\ Promoted
     /\ \/ dtype \in Datetime64s /\ fill_value.k = "datetime" /\ fill_value.c /= "naive"
        \/ /\ dtype \in Datetime64s \cup Timedelta64s
           /\ fill_value.k \in {"int", "float"}
           /\ ~isna(fill_value))
        => res = Returns("object", fill_value)

C7_Witness ==
    /\ Promoted
    /\ dtype = "datetime64[ns]"
    /\ fill_value = PyDatetime("UTC")
    /\ res.dtype = "object"

(* C8: a null marker valid for the kind (NaN, None, NA, NaT, a NaT of the same   *)
(* kind) into a datetime64 or timedelta64 dtype keeps the dtype, and the fill    *)
(* value is the nanosecond NaT of that kind: datetime64 NaT for datetime64,      *)
(* timedelta64 NaT for timedelta64.                                              *)
C8_TemporalNullSentinel ==
    /\ (Promoted /\ dtype \in Datetime64s /\ fill_value \in {NaN, None, NA, NaT, Datetime64NaT})
           => res = Returns(dtype, Datetime64NaT)
    /\ (Promoted /\ dtype \in Timedelta64s /\ fill_value \in {NaN, None, NA, NaT, Timedelta64NaT})
           => res = Returns(dtype, Timedelta64NaT)

C8_Witness ==
    /\ Promoted
    /\ dtype = "timedelta64[s]"
    /\ fill_value = NA
    /\ res = Returns("timedelta64[s]", Timedelta64NaT)

-----------------------------------------------------------------------------
(* The claims about find_common_type *)

Joined == op = "find_common_type" /\ common.err = ""

AllEqual(ts) == \A i \in 1..Len(ts) : ts[i] = ts[1]

(* C10 as claimed: find_common_type gives the same result for every reordering *)
(* of a non-empty list and for every list with the same distinct dtypes, and a *)
(* list whose elements all equal A gives A.                                    *)
C10_OrderIndependent ==
    /\ (Joined /\ rerun /= "no") => common.dtype = prev_common.dtype
    /\ (Joined /\ AllEqual(types)) => common.dtype = types[1]

(* C10 amended: the same holds for the lists that hold no extension dtype; with *)
(* extension dtypes the result is the first answer in list order, so it may     *)
(* change with the order. A list whose elements all equal A still gives A.      *)
C10_OrderIndependentNumpy ==
    /\ (/\ Joined
        /\ rerun /= "no"
        /\ \A i \in 1..Len(types) : ~is_extension_array_dtype(types[i]))
           => common.dtype = prev_common.dtype
    /\ (Joined /\ AllEqual(types)) => common.dtype = types[1]

C10_Witness ==
    /\ Joined
    /\ rerun = "reordered"
    /\ types = <<"uint64", "int64">>
    /\ common.dtype = "float64"
    /\ prev_common.dtype = "float64"

HasExtension(ts) == \E i \in 1..Len(ts) : is_extension_array_dtype(ts[i])

(* C11: for a list of non-extension dtypes that are not all equal,            *)
(* find_common_type returns object whenever the list holds the boolean dtype   *)
(* together with an integer, float or complex dtype, wherever they stand and   *)
(* whatever else is listed.                                                    *)
C11_BoolWithNumericIsObject ==
    (/\ Joined
     /\ ~AllEqual(types)
     /\ ~HasExtension(types)
     /\ \E i \in 1..Len(types) : types[i] = "bool"
     /\ \E i \in 1..Len(types) : types[i] \in NumericDtypes)
        => common.dtype = "object"

C11_Witness ==
    /\ Joined
    /\ types = <<"datetime64[ns]", "float16", "bool">>
    /\ common.dtype = "object"

(* The positions of the extension dtypes of the list. *)
ExtensionAt(u) == {i \in 1..Len(u) : is_extension_array_dtype(u[i])}

(* The extension dtypes of the list at the positions up to n, in list order. *)
ExtensionsUpTo(u, n) ==
    LET F[i \in 0..Len(u)] ==
            IF i = 0 THEN <<>>
            ELSE IF i \in ExtensionAt(u) /\ i <= n THEN Append(F[i - 1], u[i]) ELSE F[i - 1]
    IN F[Len(u)]

(* C12: when the deduplicated list holds an extension dtype and the dtypes are *)
(* not all equal, the extension dtypes are asked in list order for their       *)
(* common dtype with the deduplicated list; the first answer that is not None  *)
(* is returned and no later extension dtype is asked; when all answer None the *)
(* result is object. No other rule decides the result of such a list.          *)
C12_FirstExtensionAnswerWins ==
    (Joined /\ ~AllEqual(types) /\ HasExtension(types))
        => LET u == Unique(types)
           IN \/ /\ \A i \in ExtensionAt(u) : GetCommonDtype(u[i], u) = NoAnswer
                 /\ common.dtype = "object"
                 /\ asked = ExtensionsUpTo(u, Len(u))
              \/ \E i \in ExtensionAt(u) :
                    /\ GetCommonDtype(u[i], u) /= NoAnswer
                    /\ \A j \in ExtensionAt(u) : j < i => GetCommonDtype(u[j], u) = NoAnswer
                    /\ common.dtype = GetCommonDtype(u[i], u)
                    /\ asked = ExtensionsUpTo(u, i)

C12_Witness ==
    /\ Joined
    /\ types = <<"Sparse[int64, 0]", "category", "period">>
    /\ asked = <<"Sparse[int64, 0]", "category">>
    /\ common.dtype = "object"

-----------------------------------------------------------------------------
(* The claims about maybe_cast_to_integer_array *)

CastCalled == op = "maybe_cast_to_integer_array"

NegativeMessage == "Trying to coerce negative values to unsigned integers"

PrecisionMessage == "Trying to coerce float values to integers"

(* the conversion itself raised, before any comparison *)
ConversionRaised == out.kind = "raise" /\ out.msg \notin {NegativeMessage, PrecisionMessage}

AnyNegative(es) == \E i \in 1..Len(es) : ElemNegative(es[i])

(* C13: maybe_cast_to_integer_array returns the converted array when it is     *)
(* elementwise equal to the original; when it is not, it raises OverflowError  *)
(* if the target is unsigned and an original value is negative (float and      *)
(* object input too), and otherwise the precision-loss ValueError if the       *)
(* original is float or object. [1.5, 2.0] to int64 raises the precision-loss  *)
(* error and [-1] to uint64 raises OverflowError.                              *)
C13_EqualOrRaises ==
    /\ (CastCalled /\ ~ConversionRaised)
          => IF NpArrayEqual(arr.elems, out.casted)
             THEN out.kind = "array" /\ out.dtype = target /\ out.elems = out.casted
             ELSE IF is_unsigned_integer_dtype(target) /\ AnyNegative(arr.elems)
             THEN out.kind = "raise" /\ out.err = "OverflowError"
             ELSE NpAsarrayDtype(arr) \in {"float64", "object"}
                     => /\ out.kind = "raise"
                        /\ out.err = "ValueError"
                        /\ out.msg = PrecisionMessage
    /\ (CastCalled /\ arr = Array("list", <<FloatElem(3), FloatElem(4)>>) /\ target = "int64")
          => out.err = "ValueError" /\ out.msg = PrecisionMessage
    /\ (CastCalled /\ arr = Array("list", <<IntElem(-1)>>) /\ target = "uint64")
          => out.err = "OverflowError"

C13_Witness ==
    /\ CastCalled
    /\ arr = Array("float64", <<FloatElem(-2)>>)
    /\ target = "uint8"
    /\ out.err = "OverflowError"
    /\ out.msg = NegativeMessage

-----------------------------------------------------------------------------
(* The claims about astype_nansafe *)

Cast == op = "astype_nansafe"

(* C14 as claimed: whenever astype_nansafe returns an array, its null positions *)
(* are the null positions of the source array, for every source and target.     *)
C14_NullPositionsPreserved ==
    (Cast /\ out.kind = "array")
        => /\ Len(out.elems) = Len(arr.elems)
           /\ \A i \in 1..Len(arr.elems) : ElemIsNull(out.elems[i]) <=> ElemIsNull(arr.elems[i])

(* C15 as claimed: astype_nansafe raises the missing-unit ValueError for every *)
(* call whose target is datetime64 or timedelta64 without a unit, whatever the *)
(* source; no such call returns an array.                                      *)
C15_BareTemporalRaises ==
    (Cast /\ target \in BareTemporal) => out = MissingUnit

(* C16 as claimed: with copy=True, or an object source or target, the array    *)
(* returned shares no storage with the input; no cast between two different    *)
(* kinds returns shared storage; only a cast within one kind with copy=False   *)
(* may.                                                                        *)
C16_NoViewAcrossKinds ==
    (Cast /\ out.kind = "array" /\ out.shares)
        => /\ ~copy
           /\ arr.dtype /= "object"
           /\ target /= "object"
           /\ ArrayKind(arr.dtype) = ArrayKind(target)

(* C17: astype_nansafe from datetime64 or timedelta64 to int64 raises          *)
(* ValueError when an element is NaT; without NaT it returns the integer       *)
(* counts, position by position, and warns of the deprecation, never failing.  *)
C17_TemporalToInt64 ==
    (Cast /\ ArrayKind(arr.dtype) \in {"M", "m"} /\ target = "int64")
        => IF AnyNull(arr.elems)
           THEN out.kind = "raise" /\ out.err = "ValueError"
           ELSE /\ out.kind = "array"
                /\ out.dtype = "int64"
                /\ out.warned
                /\ Len(out.elems) = Len(arr.elems)
                /\ \A i \in 1..Len(arr.elems) : out.elems[i] = IntElem(arr.elems[i].v)

C17_Witness ==
    /\ Cast
    /\ arr = Array("datetime64[s]", <<Elem("time", 1, 0), Elem("time", -1, 0)>>)
    /\ target = "int64"
    /\ out.elems = <<IntElem(1), IntElem(-1)>>
    /\ out.warned

C19_DatetimeResample ==
    (Cast /\ arr.dtype \in Datetime64s /\ target \in Datetime64s /\ target /= arr.dtype)
        => /\ out.kind = "array"
           /\ out.dtype = target
           /\ Len(out.elems) = Len(arr.elems)
           /\ \A i \in 1..Len(arr.elems) :
                 IF arr.elems[i] = ElemNaT THEN out.elems[i] = ElemNaT
                 ELSE out.elems[i] =
                        Elem("time",
                             IF target = "datetime64[s]" THEN arr.elems[i].v \div NsPerSecond
                             ELSE arr.elems[i].v * NsPerSecond,
                             0)

C19_Witness ==
    /\ Cast
    /\ arr = Array("datetime64[ns]", <<Elem("time", NsPerSecond, 0), ElemNaT>>)
    /\ target = "datetime64[s]"
    /\ out.elems = <<Elem("time", 1, 0), ElemNaT>>

NonFiniteMessage == "Cannot convert non-finite values (NA or inf) to integer"

C28_NeverReturnsNothing ==
    CastCalled
        => \/ out.kind = "array" /\ NpArrayEqual(arr.elems, out.elems)
           \/ out.kind = "raise" /\ out.err \in {"OverflowError", "ValueError"}

(* The narrowest integer dtype of the given ones that holds the integer v. *)
NarrowestOf(v, ts) ==
    IF \A t \in ts : ~IntFits(v, t) THEN "object"
    ELSE CHOOSE t \in ts : IntFits(v, t) /\ \A u \in ts : IntFits(v, u) => Width(t) <= Width(u)

(* The minimal scalar type of an integer: unsigned unless the integer is negative. *)
MinimalIntegerType(v) ==
    IF IsNegative(v) THEN NarrowestOf(v, SignedInts) ELSE NarrowestOf(v, UnsignedInts)

Unboxing == op = "maybe_unbox_datetimelike"

(* timedelta values and datetime values, boxed or not *)
IsDuration(v) == v.k \in {"pd.Timedelta", "td64", "timedelta"}

IsInstant(v) == v.k \in {"Timestamp", "dt64", "datetime"}

(* C27 as claimed: maybe_unbox_datetimelike maps a missing marker valid for   *)
(* the dtype to the dtype's NaT, raises TypeError for a duration (Timedelta,  *)
(* np.timedelta64, timedelta) against a datetime64 dtype and for an instant   *)
(* (Timestamp, np.datetime64, datetime) against a timedelta64 dtype, and      *)
(* never returns a value of the other temporal kind.                          *)
C27_MismatchedKindRaises ==
    Unboxing
        => /\ is_valid_nat_for_dtype(fill_value, dtype) => res = Returns(dtype, DtypeNaT(dtype))
           /\ (IsDuration(fill_value) /\ Kind(dtype) = "M") => res.err = "TypeError"
           /\ (IsInstant(fill_value) /\ Kind(dtype) = "m") => res.err = "TypeError"
           /\ res.err = "" => ~(IsDuration(res.fill_value) /\ Kind(dtype) = "M")
           /\ res.err = "" => ~(IsInstant(res.fill_value) /\ Kind(dtype) = "m")

Validated == op = "validate_numeric_casting"

(* C26 as claimed: validate_numeric_casting raises ValueError for a float NaN *)
(* with an integer or boolean dtype and for a boolean with an integer, float  *)
(* or complex dtype of any width; every other pair returns without error.     *)
C26_RaisesExactly ==
    Validated
        => res = IF \/ /\ is_float(fill_value) /\ isna(fill_value)
                       /\ is_integer_dtype(dtype) \/ dtype = "bool"
                    \/ /\ is_bool(fill_value)
                       /\ is_integer_dtype(dtype) \/ is_float_dtype(dtype)
                              \/ is_complex_dtype(dtype)
                 THEN Raises("ValueError")
                 ELSE Completes

Coerced == op = "coerce_indexer_dtype"

(* the signed integer dtype t holds every code from -1 to n - 1 *)
HoldsCodes(t, n) ==
    CASE t = "int8" -> n - 1 <= int8_max
      [] t = "int16" -> n - 1 <= int16_max
      [] t = "int32" -> n - 1 <= int32_max
      [] OTHER -> TRUE

(* C30 as claimed: coerce_indexer_dtype returns the indexer in the smallest   *)
(* of int8, int16, int32, int64 that holds every valid code (-1 to            *)
(* len(categories) - 1), at the boundaries 127, 32767 and 2^31 - 1 too: the   *)
(* dtype holds all the codes and no narrower one would.                       *)
C30_SmallestCodeDtype ==
    Coerced
        => /\ out.kind = "array"
           /\ out.dtype \in SignedInts
           /\ HoldsCodes(out.dtype, length)
           /\ \A t \in SignedInts : Width(t) < Width(out.dtype) => ~HoldsCodes(t, length)
           /\ NpArrayEqual(arr.elems, out.elems)

Downcast == op = "maybe_downcast_numeric"

(* C22 as claimed: maybe_downcast_numeric returns a converted array only when *)
(* the converted values equal the values before the conversion at every       *)
(* position, for every target dtype it converts to; in every other case it    *)
(* returns the input array itself.                                            *)
C22_ConvertedOnlyIfRoundTrips ==
    Downcast
        => /\ out.kind = "array"
           /\ out = Unchanged(arr) \/ (~out.shares /\ AllClose(out.elems, arr.elems))

(* C22 as the code has it: the round trip decides for the bool and integer    *)
(* targets only.  There a converted array equals the input at every position *)
(* (an empty input is converted as it is), and the call returns the input     *)
(* itself otherwise, unless the conversion of an object array raises.  A      *)
(* floating target converts every non-boolean, non-object input of another    *)
(* kind or of a wider dtype with no test of the values.                       *)
C22_IntegerTargetRoundTrips ==
    Downcast
        => /\ out.kind = "array" => out = Unchanged(arr) \/ (~out.shares /\ out.dtype = target)
           /\ (out.kind = "array" /\ ~out.shares /\ (is_bool_dtype(target) \/ is_integer_dtype(target)))
                 => AllClose(out.elems, arr.elems)
           /\ (out.kind = "array" /\ ~out.shares)
                 => is_bool_dtype(target) \/ is_integer_dtype(target) \/ TypeIsFloating(target)
           /\ out.kind = "raise" => arr.dtype = "object" /\ is_integer_dtype(target)
           /\ (TypeIsFloating(target) /\ arr.dtype \in {"int64", "float64"} /\ ~IsUpcast(arr, target))
                 => out.kind = "array" /\ ~out.shares

C22_Witness ==
    /\ Downcast
    /\ arr = Array("float64", <<FloatElem(2), FloatElem(33554434)>>)
    /\ target = "int64"
    /\ out = Gives("int64", <<IntElem(1), IntElem(16777217)>>, FALSE, FALSE)

(* C23 as claimed: with an explicit target maybe_downcast_numeric returns the *)
(* input unchanged whenever the input is non-empty and its item width is at   *)
(* most the target's, and whenever the input holds a null at any position.    *)
C23_NoUpcastNoNull ==
    (/\ Downcast
     /\ \/ arr.elems /= <<>> /\ ItemSize(arr.dtype) <= ItemSize(target)
        \/ AnyNull(arr.elems))
        => out = Unchanged(arr)

(* C23 as the code has it: the input is returned unchanged whenever it is     *)
(* non-empty, of the target's kind and at most as wide as the target, and     *)
(* whenever the target is a bool or integer dtype and the input holds a null  *)
(* at any position.                                                           *)
C23_NoUpcastSameKindNoNullToInteger ==
    (/\ Downcast
     /\ \/ /\ arr.elems /= <<>>
           /\ Kind(arr.dtype) = Kind(target)
           /\ ItemSize(arr.dtype) <= ItemSize(target)
        \/ AnyNull(arr.elems) /\ (is_bool_dtype(target) \/ is_integer_dtype(target)))
        => out = Unchanged(arr)

C23_Witness ==
    /\ Downcast
    /\ arr = Array("float64", <<FloatElem(2), ElemNaN>>)
    /\ target = "int64"
    /\ out = Unchanged(arr)

Putmasked == op = "maybe_upcast_putmask" /\ out.kind = "array"

(* the dtypes that NaN widens: bool to object, the integers to float64 *)
WidenedByNaN(d) == d = "bool" \/ is_integer_dtype(d)

(* C24: maybe_upcast_putmask leaves the destination unmodified and returns a  *)
(* new array (NaN at the masked positions, the original values elsewhere)     *)
(* whenever the mask has a True entry and promoting the destination's dtype   *)
(* with NaN changes it; it writes NaN into the destination at the masked      *)
(* positions only and returns that array when no widening is needed; with no  *)
(* True entry it returns the same array with no element changed.              *)
C24_PutmaskFrameEffect ==
    Putmasked
        => /\ (MaskAny(mask) /\ WidenedByNaN(arr.dtype))
                 => /\ result = arr
                    /\ ~out.shares
                    /\ out.dtype = IF arr.dtype = "bool" THEN "object" ELSE "float64"
                    /\ Len(out.elems) = Len(arr.elems)
                    /\ \A i \in 1..Len(arr.elems) :
                          IF mask[i] THEN out.elems[i] = ElemNaN
                          ELSE CloseElem(out.elems[i], arr.elems[i])
           /\ (MaskAny(mask) /\ ~WidenedByNaN(arr.dtype))
                 => /\ out.shares
                    /\ out = Unchanged(result)
                    /\ result.dtype = arr.dtype
                    /\ Len(result.elems) = Len(arr.elems)
                    /\ \A i \in 1..Len(arr.elems) :
                          result.elems[i] = IF mask[i] THEN ElemNaN ELSE arr.elems[i]
           /\ ~MaskAny(mask) => result = arr /\ out = Unchanged(arr)

C24_Witness ==
    /\ Putmasked
    /\ arr = Array("int64", <<IntElem(1), IntElem(300)>>)
    /\ mask = <<FALSE, TRUE>>
    /\ result = arr
    /\ out = Gives("float64", <<FloatElem(2), ElemNaN>>, FALSE, FALSE)

(* a collaborator of the last call was reached and failed with the exception e *)
CollaboratorFailed(e) ==
    /\ collaborator = e
    /\ \/ op = "maybe_cast_to_extension_array" /\ FromSequenceCalled(target, arr)
       \/ op = "maybe_cast_to_datetime" /\ ToDatetimeCalled(arr, target)
       \/ op = "maybe_downcast_to_dtype" /\ PeriodArrayCalled(target)

=============================================================================
